------------------------------ MODULE Requests ------------------------------
(***************************************************************************)
(* A client of the daemon: it sends requests over REST or MCP and pages    *)
(* through lists, one thing at a time, while incoming messages are handled *)
(* and the connection to WhatsApp comes and goes.  A request passes the    *)
(* token check, the handler or tool, the service and the adapter, as the   *)
(* tables of module Routes have it, and is answered; the properties are    *)
(* about what an answer tells.                                             *)
(***************************************************************************)
EXTENDS Paging, Routes

CONSTANTS
  TokenConfigured,  \* auth.token is not empty
  NoMessage         \* where a request names no message

ASSUME RequestsAssumption == TokenConfigured \in BOOLEAN /\ NoMessage \notin Msgs

VARIABLES
  online,    \* what Adapter.Status and every call of the adapter look at
  phase,     \* where the request is
  request,   \* the request the client has sent
  answer,    \* the answer to it
  effects,   \* what it has changed: "whatsapp", "store"
  error      \* the error that ended it, where it was found

requestVars == <<phase, request, answer, effects, error>>
vars == <<pagingVars, online, requestVars>>

\* What may be wrong with a request, and is found out at different places: its
\* token; its form; its values; an optional field that is not there; a value
\* that is only parsed further down; something that only WhatsApp knows of, as
\* that there is no such group, or that we are not in it.
Faults == {"none", "token", "form", "value", "omitted", "malformed", "refused"}

MayHave(op, over, fault) ==
  \/ fault \in {"none", "token"}
  \/ fault = "form"  /\ (IF over = "rest" THEN NewRouter ELSE newServer)[op].parses
  \/ fault = "value" /\ Service[op].validates
  \/ fault = "omitted" /\ newServer[op].omits
  \/ fault = "malformed" /\ ParsedBelow(op)
  \/ fault = "refused" /\ Calls(op)

\* The message a request is about, which may be unknown to the store; or the id
\* WhatsApp will give to what it sends.  One that goes no further than its form
\* may as well name none.
Targets(op, fault) ==
  IF fault \in {"form", "value"} \/ (fault = "token" /\ TokenConfigured)
    THEN {NoMessage}
    ELSE CASE op \in {"sendText", "sendMedia"} -> Ours
           [] Service[op].needs \in {"own", "message"} -> Msgs
           [] OTHER -> {NoMessage}

\* The requests a client may send.
Possible ==
  {r \in [op : Operations, over : {"rest", "mcp"}, fault : Faults,
           msg : Msgs \cup {NoMessage}] :
     MayHave(r.op, r.over, r.fault) /\ r.msg \in Targets(r.op, r.fault)}

Idle ==
  /\ phase' = "idle" /\ request' = <<>> /\ answer' = "none"
  /\ effects' = {} /\ error' = "none"

Refuse(a, e) == phase' = "answered" /\ answer' = a /\ error' = e

Answer(a, e) == Refuse(a, e) /\ UNCHANGED request

----------------------------------------------------------------------------
(* Answers.                                                                *)

\* The handler's switch on the error, or mapErr; what neither names becomes a
\* 500, or "internal error".
Names(r) == IF r.over = "rest" THEN NewRouter[r.op].names ELSE mapErr

NamedOrNothing(r, e) == IF e \in Names(r) THEN e ELSE "none"
Named(r, e) == IF e \in Names(r) THEN e ELSE "internal"

Refusals == {"unauthorized", "invalid", "forbidden", "not_found", "not_connected"}

\* Beside those: a database statement, or an exchange with WhatsApp, that has
\* failed, and what only a layer below the service found wrong.
Errors == Refusals \cup {"store", "exchange", "malformed", "refused"}

----------------------------------------------------------------------------
(* The way of a request.  Its checks read nothing but the request, up to   *)
(* the first look at the store or the connection.                          *)

\* RequireBearerToken, in front of every route but /v1/health.
Unauthorized(r) ==
  TokenConfigured /\ r.fault = "token" /\ Refuse("unauthorized", "unauthorized")

\* The handler or tool answers by itself what it cannot parse; what the
\* service refuses comes back through the names.  REST fills an optional field
\* that is missing, MCP hands its zero value down.
InvalidRequest(r) ==
  \/ r.fault = "form" /\ Refuse("invalid", "invalid")
  \/ r.fault = "value" /\ Refuse(Named(r, "invalid"), "invalid")
  \/ r.fault = "omitted" /\ r.over = "mcp" /\ Refuse(Named(r, "invalid"), "invalid")

Accepted(r) ==
  /\ r.fault \notin {"form", "value"}
  /\ r.fault # "token" \/ ~TokenConfigured
  /\ r.fault = "omitted" => r.over = "rest"
  /\ phase' = IF Service[r.op].needs # "nothing" THEN "find"
              ELSE IF Calls(r.op) THEN "call" ELSE "list"
  /\ UNCHANGED <<answer, error>>

Send(r) ==
  /\ phase = "idle" /\ list = NoList
  /\ r.op \in {"sendText", "sendMedia"} /\ r.msg \in Ours => ts[r.msg] = 0
  /\ Unauthorized(r) \/ InvalidRequest(r) \/ Accepted(r)
  /\ request' = r
  /\ UNCHANGED <<pagingVars, online, effects>>

\* A database statement fails, or the file of a media row cannot be opened: the
\* request ends with a 500.
StoreFails ==
  /\ phase \in {"find", "list"}
  /\ Answer("internal", "store")
  /\ UNCHANGED <<pagingVars, online, effects>>

\* A list, a search, a count: whatever rows there are.
ListRows ==
  /\ phase = "list"
  /\ IF request.fault = "malformed" THEN Answer("internal", "malformed")
                                    ELSE Answer("ok", "none")
  /\ UNCHANGED <<pagingVars, online, effects>>

\* One row, which the client may have got wrong.
GetRow ==
  /\ phase = "find" /\ Service[request.op].needs = "row"
  /\ \/ Answer("ok", "none")
     \/ Answer(Named(request, "not_found"), "not_found")
  /\ UNCHANGED <<pagingVars, online, effects>>

\* The message a request is about; and, to edit or delete it, ownsMessage,
\* which also says no while there is no connection.
MayChangeAny == TRUE
MayChange ==
  Service[request.op].needs = "own" =>
    online /\ request.msg \in Ours \ deleted

FindMessage ==
  /\ phase = "find" /\ Service[request.op].needs \in {"own", "message"}
  /\ \/ /\ ts[request.msg] = 0
        /\ Answer(Named(request, "not_found"), "not_found")
     \/ /\ ts[request.msg] # 0 /\ ~MayChange
        /\ Answer(Named(request, "forbidden"), "forbidden")
     \/ /\ ts[request.msg] # 0 /\ MayChange
        /\ phase' = "call"
        /\ UNCHANGED <<request, answer, error>>
  /\ UNCHANGED <<pagingVars, online, effects>>

\* The adapter looks at the connection, parses and asks WhatsApp.
NotConnected ==
  /\ phase = "call" /\ ~online
  /\ Answer(Named(request, "not_connected"), "not_connected")
  /\ UNCHANGED <<pagingVars, online, effects>>

Malformed ==
  /\ phase = "call" /\ online /\ request.fault = "malformed"
  /\ Answer("internal", "malformed")
  /\ UNCHANGED <<pagingVars, online, effects>>

\* WhatsApp refuses what the client got wrong.  No handler and no tool knows
\* that error.
WhatsAppRefuses ==
  /\ phase = "call" /\ online /\ request.fault = "refused"
  /\ Answer("internal", "refused")
  /\ UNCHANGED <<pagingVars, online, effects>>

\* An exchange fails, and its effect may be there all the same; or the last
\* one succeeds.
CallFails ==
  /\ phase = "call" /\ online /\ request.fault # "malformed"
  /\ Answer("internal", "exchange")
  /\ effects' \in {effects} \cup
       (IF Changes(request.op) /\ request.fault # "refused"
          THEN {effects \cup {"whatsapp"}} ELSE {})
  /\ UNCHANGED <<pagingVars, online>>

CallIgnoresFailure ==
  /\ phase = "call" /\ request.fault \notin {"malformed", "refused"}
  /\ effects' = IF Changes(request.op) /\ online THEN effects \cup {"whatsapp"} ELSE effects
  /\ IF Service[request.op].writes THEN phase' = "write" /\ UNCHANGED <<request, answer, error>>
                                   ELSE Answer("ok", "none")
  /\ UNCHANGED <<pagingVars, online>>
CallSucceeds ==
  /\ phase = "call" /\ online /\ request.fault \notin {"malformed", "refused"}
  /\ effects' = IF Changes(request.op) THEN effects \cup {"whatsapp"} ELSE effects
  /\ IF Service[request.op].writes THEN phase' = "write" /\ UNCHANGED <<request, answer, error>>
                                   ELSE Answer("ok", "none")
  /\ UNCHANGED <<pagingVars, online>>

\* What the service writes once WhatsApp has accepted.  A statement that fails
\* is logged and changes nothing about the answer.  Of a message sent, its row,
\* which needs the chat's, and then the chat's row: either may fail alone.
WriteSent(m, t) ==
  LET c    == ChatOf[m]
      row  == IF lastAt[c] # 0 THEN [ts EXCEPT ![m] = t] ELSE ts
      chat == [lastAt EXCEPT ![c] = t] IN
  /\ \/ ts' = row /\ lastAt' \in {lastAt, chat}
     \/ ts' = ts /\ lastAt' = chat
  /\ UNCHANGED deleted

WriteEdit(m) == deleted' = deleted \ {m} /\ UNCHANGED <<ts, lastAt>>
WriteDelete(m) == deleted' = deleted \cup {m} /\ UNCHANGED <<ts, lastAt>>
\* The new group's row, whatever a message that came first has left there.
WriteGroup(c, t) == lastAt' = [lastAt EXCEPT ![c] = t] /\ UNCHANGED <<ts, deleted>>

Write ==
  /\ phase = "write"
  /\ LET op == request.op  m == request.msg IN
     \/ op \in {"sendText", "sendMedia"} /\ \E t \in Seconds : WriteSent(m, t)
     \/ op = "edit" /\ WriteEdit(m)
     \/ op = "delete" /\ WriteDelete(m)
     \/ op = "createGroup" /\ \E c \in Chats, t \in Seconds : WriteGroup(c, t)
     \/ op \in {"react", "read"} /\ UNCHANGED <<ts, deleted, lastAt>>
  /\ effects' = effects \cup {"store"}
  /\ Answer("ok", "none")
  /\ UNCHANGED <<handling, list, cursor, got, again, cuts, still, online>>

WriteFails ==
  /\ phase = "write"
  /\ Answer("ok", "none")
  /\ UNCHANGED <<pagingVars, online, effects>>

\* The client has its answer.
Received ==
  /\ phase = "answered"
  /\ Idle
  /\ UNCHANGED <<pagingVars, online>>

----------------------------------------------------------------------------
Init ==
  /\ PagingInit
  /\ online = FALSE
  /\ phase = "idle" /\ request = <<>> /\ answer = "none"
  /\ effects = {} /\ error = "none"

Serve ==
  \/ StoreFails \/ ListRows \/ GetRow \/ FindMessage
  \/ NotConnected \/ Malformed \/ WhatsAppRefuses \/ CallFails \/ CallSucceeds
  \/ Write \/ WriteFails

Next ==
  \/ \E r \in Possible : Send(r)
  \/ Serve
  \/ Received
  \/ phase = "idle" /\ (\E l \in Chats \cup {ChatList} : StartWalk(l)) /\ UNCHANGED <<online, requestVars>>
  \/ (ReadPage \/ EndWalk) /\ UNCHANGED <<online, requestVars>>
  \/ Handle /\ UNCHANGED <<online, requestVars>>
  \/ online' = ~online /\ UNCHANGED <<pagingVars, requestVars>>

Spec == Init /\ [][Next]_vars

\* A client that walks through a list keeps asking.
FairSpec == Spec /\ WF_vars(ReadPage /\ UNCHANGED <<online, requestVars>>)

----------------------------------------------------------------------------
(* Properties.                                                             *)

TypeOK ==
  /\ ts \in [Msgs -> 0 .. MaxSecond] /\ deleted \subseteq Msgs
  /\ lastAt \in [Chats -> 0 .. MaxSecond]
  /\ handling \in {<<>>} \cup (Msgs \X Seconds)
  /\ list \in {NoList, ChatList} \cup Chats /\ cursor \in 0 .. NoCursor
  /\ cuts \subseteq Seconds
  /\ list # NoList => got \cup again \cup still \subseteq RowsOf(list)
  /\ online \in BOOLEAN /\ error \in {"none"} \cup Errors
  /\ phase \in {"idle", "find", "call", "list", "write", "answered"}
  /\ answer \in {"none", "ok", "internal"} \cup Refusals
  /\ (phase = "answered") = (answer # "none")
  /\ effects \subseteq {"whatsapp", "store"}

\* A request that is refused, for whatever reason a 4xx or a named tool error
\* gives, has reached neither WhatsApp nor the store; one that is answered with
\* success has reached WhatsApp, also when the store then failed.
AnswerTellsTheTruth ==
  phase = "answered" =>
    /\ answer \in Refusals => effects = {}
    /\ answer = "ok" /\ Changes(request.op) => "whatsapp" \in effects

\* Each error is told under its own name and never as a success.  A 500, or
\* "internal error", is left for what failed in the daemon or on the way to
\* WhatsApp, and for what of the client's mistakes is found below the service
\* only, in the adapter, the full-text index or by WhatsApp itself, which
\* 08-groups-design.md:241 accepts.  Two errors the service does name are lost:
\* a blank JID in GET /v1/chats/{jid}, whose handler does not know
\* ErrInvalidRequest, and, through every tool, that there is no connection.
FailuresAreNamed ==
  phase = "answered" =>
    \/ answer = "ok" /\ error = "none"
    \/ answer = error
    \/ /\ answer = "internal"
       /\ \/ error \in {"store", "exchange", "malformed", "refused"}
          \/ /\ error = "invalid"
             /\ request.over = "rest" /\ request.op = "chat"
          \/ error = "not_connected" /\ request.over = "mcp"

\* Whatever a request changes, it had a good token, nothing was wrong with it,
\* the tool it came through does not call itself read-only, and a message it
\* edits or deletes is ours.
OnlyAllowedEffects ==
  effects # {} =>
    /\ request.fault \in {"none", "omitted", "token"}
    /\ request.fault = "token" => ~TokenConfigured
    /\ request.over = "mcp" => ~newServer[request.op].readOnly
    /\ Service[request.op].needs = "own" => request.msg \in Ours
=============================================================================
