--------------------------- MODULE RequestsProofs ---------------------------
(***************************************************************************)
(* What an answer tells, and what a walk through a list shows, for every   *)
(* operation over REST and MCP, any number of messages and chats, any page *)
(* size, with or without a token.  The tables of Routes enter the proofs   *)
(* through two lemmas: Tables, and NamedFacts for mapErr.                  *)
(***************************************************************************)
EXTENDS Requests, PagingProofs

----------------------------------------------------------------------------
(* The tables.                                                             *)

\* What the layers have to agree on, operation by operation: what is written
\* down was sent, a read-only tool sends nothing that changes anything, and a
\* handler names the errors its service method and its call can return.
LEMMA Tables ==
  ASSUME NEW op \in Operations
  PROVE  /\ Service[op].needs \in {"nothing", "own", "message", "row"}
         /\ Service[op].writes => Calls(op) /\ Changes(op)
         /\ Changes(op) => ~newServer[op].readOnly
         /\ Service[op].needs = "row" => ~Calls(op) /\ "not_found" \in NewRouter[op].names
         /\ Service[op].needs \in {"own", "message"} =>
              Calls(op) /\ "not_found" \in NewRouter[op].names
         /\ Service[op].needs = "own" => "forbidden" \in NewRouter[op].names
         /\ Calls(op) => "not_connected" \in NewRouter[op].names
         /\ Service[op].validates /\ op # "chat" => "invalid" \in NewRouter[op].names
<1>1. op \in {"sendText", "edit", "delete", "searchMessages", "sendMedia",
              "getMedia", "react", "reactions", "read", "receipts", "typing",
              "chats", "chat", "messages", "contacts", "searchContacts",
              "stats", "createGroup", "members", "updateMembers", "leaveGroup"}
  BY DEF Operations, NewRouter
<1>2. /\ Service[op].needs \in {"nothing", "own", "message", "row"}
      /\ Service[op].writes =>
           op \in {"sendText", "sendMedia", "edit", "delete", "react", "read", "createGroup"}
      /\ Service[op].needs = "row" => op \in {"getMedia", "chat"}
      /\ Service[op].needs = "own" => op \in {"edit", "delete"}
      /\ Service[op].needs = "message" => op \in {"react", "read"}
      /\ Service[op].validates => op \notin {"contacts", "stats"}
  BY <1>1
  DEF Service, Method,
      SendText, SendMedia, EditMessage, DeleteMessage, SendReaction,
      MarkMessageRead, SendTyping, CreateGroup, ListGroupMembers,
      UpdateGroupMembers, LeaveGroup, ListChats, GetChat, ListMessages,
      SearchMessages, ListContacts, SearchContacts, Stats, GetMediaRef,
      ListReactions, ListReceipts
<1>3. /\ Calls(op) <=> op \in {"sendText", "sendMedia", "edit", "delete", "react", "read",
                              "typing", "createGroup", "members", "updateMembers",
                              "leaveGroup"}
      /\ Changes(op) <=> Calls(op) /\ op # "members"
  BY <1>1
  DEF Calls, Changes, Asks, Asking, Adapter, Call,
      AdapterSendText, AdapterSendMedia, AdapterSendEdit, AdapterSendRevoke,
      AdapterSendReaction, AdapterMarkRead, AdapterSendChatPresence,
      AdapterCreateGroup, AdapterGetGroupInfo, AdapterUpdateParticipants,
      AdapterLeaveGroup
<1>4. newServer[op].readOnly =>
        op \in {"searchMessages", "getMedia", "reactions", "receipts", "chats", "chat",
                "messages", "contacts", "searchContacts", "stats", "members"}
  BY <1>1
  DEF newServer, Tool,
      wa_send_text, wa_send_media, wa_edit_message, wa_delete_message,
      wa_react, wa_mark_read, wa_typing, wa_list_messages, wa_search_messages,
      wa_list_reactions, wa_list_receipts, wa_get_media, wa_list_chats,
      wa_get_chat, wa_list_contacts, wa_search_contacts, wa_stats,
      wa_create_group, wa_list_group_members, wa_update_group_members,
      wa_leave_group
<1>5. /\ op \in {"getMedia", "chat", "edit", "delete", "react", "read"} =>
           "not_found" \in NewRouter[op].names
      /\ op \in {"edit", "delete"} => "forbidden" \in NewRouter[op].names
      /\ op \in {"sendText", "sendMedia", "edit", "delete", "react", "read", "typing",
                 "createGroup", "members", "updateMembers", "leaveGroup"} =>
           "not_connected" \in NewRouter[op].names
      /\ op \notin {"chat", "contacts", "stats"} => "invalid" \in NewRouter[op].names
  BY <1>1
  DEF NewRouter, Handler,
      SendTextHandler, EditMessageHandler, DeleteMessageHandler,
      SearchMessagesHandler, SendMediaHandler, GetMediaHandler,
      SendReactionHandler, ListReactionsHandler, MarkReadHandler,
      ListReceiptsHandler, SendTypingHandler, ListChatsHandler, GetChatHandler,
      ListMessagesByChatHandler, ListContactsHandler, SearchContactsHandler,
      StatsHandler, CreateGroupHandler, ListGroupMembersHandler,
      UpdateGroupMembersHandler, LeaveGroupHandler
<1>6. QED BY <1>1, <1>2, <1>3, <1>4, <1>5


----------------------------------------------------------------------------
(* The invariant.                                                          *)

\* A request that no check of the handler or the service refuses.
Sound(r) ==
  /\ r \in Possible
  /\ r.fault \notin {"form", "value"}
  /\ r.fault # "token" \/ ~TokenConfigured
  /\ r.fault = "omitted" => r.over = "rest"

\* Where a request is tells what it has passed and done.
OnItsWay ==
  /\ phase \in {"find", "call", "list", "write"} => Sound(request)
  /\ phase = "answered" => request \in Possible
  /\ phase = "find" => Service[request.op].needs # "nothing"
  /\ phase = "list" => ~Calls(request.op)
  /\ phase = "call" => Calls(request.op)
  /\ phase = "write" =>
       Service[request.op].writes /\ request.fault \notin {"malformed", "refused"}
  /\ phase \in {"call", "write"} =>
       (Service[request.op].needs = "own" => request.msg \in Ours)
  /\ phase \in {"idle", "find", "call", "list"} => effects = {}
  /\ phase = "write" => effects = {"whatsapp"}

\* The client does one thing at a time.
OneThing == phase # "idle" => list = NoList

RequestType ==
  /\ online \in BOOLEAN /\ error \in {"none"} \cup Errors
  /\ phase \in {"idle", "find", "call", "list", "write", "answered"}
  /\ answer \in {"none", "ok", "internal"} \cup Refusals
  /\ (phase = "answered") = (answer # "none")
  /\ effects \subseteq {"whatsapp", "store"}

RequestInv ==
  /\ RequestType /\ OnItsWay /\ OneThing
  /\ AnswerTellsTheTruth /\ FailuresAreNamed /\ OnlyAllowedEffects

----------------------------------------------------------------------------
(* Requests.                                                               *)

\* What every request has.
LEMMA PossibleFacts ==
  ASSUME NEW r \in Possible
  PROVE  /\ r.op \in Operations /\ r.over \in {"rest", "mcp"}
         /\ r.fault \in Faults /\ r.msg \in Msgs \cup {NoMessage}
         /\ r.fault = "value" => Service[r.op].validates
BY DEF Possible, MayHave

\* The message a request that was accepted is about.
LEMMA TargetFacts ==
  ASSUME PagingAssumption, NEW r \in Possible, Sound(r)
  PROVE  /\ r.op \in {"sendText", "sendMedia"} => r.msg \in Ours
         /\ r.op \in {"edit", "delete", "react", "read"} => r.msg \in Msgs
<1>1. r.msg \in Targets(r.op, r.fault)
  BY DEF Possible
<1>2. ~(r.fault \in {"form", "value"} \/ (r.fault = "token" /\ TokenConfigured))
  BY DEF Sound
<1>3. /\ r.op \in {"edit", "delete", "react", "read"} =>
           Service[r.op].needs \in {"own", "message"}
      /\ r.op \in {"sendText", "sendMedia"} => Service[r.op].needs = "nothing"
  BY DEF Service, Method, EditMessage, DeleteMessage, SendReaction, MarkMessageRead,
         SendText, SendMedia
<1>4. CASE r.op \in {"sendText", "sendMedia"}
  <2>1. Targets(r.op, r.fault) = Ours
    BY <1>2, <1>3, <1>4 DEF Targets
  <2>2. QED BY <2>1, <1>1, <1>4
<1>5. CASE r.op \in {"edit", "delete", "react", "read"}
  <2>1. Targets(r.op, r.fault) = Msgs
    BY <1>2, <1>3, <1>5 DEF Targets
  <2>2. QED BY <2>1, <1>1, <1>5
<1>6. QED BY <1>4, <1>5

\* What an answer must be for the three properties of answers.
FineAnswer(a, e, x, r) ==
  /\ a \in {"ok", "internal"} \cup Refusals /\ x \in {"none"} \cup Errors
  /\ a \in Refusals => e = {}
  /\ a = "ok" /\ Changes(r.op) => "whatsapp" \in e
  /\ \/ a = "ok" /\ x = "none"
     \/ a = x
     \/ /\ a = "internal"
        /\ \/ x \in {"store", "exchange", "malformed", "refused"}
           \/ x = "invalid" /\ r.over = "rest" /\ r.op = "chat"
           \/ x = "not_connected" /\ r.over = "mcp"

MayAffect(r) ==
  /\ r.fault \in {"none", "omitted", "token"}
  /\ r.fault = "token" => ~TokenConfigured
  /\ r.over = "mcp" => ~newServer[r.op].readOnly
  /\ Service[r.op].needs = "own" => r.msg \in Ours

\* A step that answers the request.
LEMMA Answered ==
  ASSUME NEW r \in Possible, request' = r, phase' = "answered",
         list' = NoList, online' \in BOOLEAN,
         FineAnswer(answer', effects', error', r),
         effects' \subseteq {"whatsapp", "store"}, effects' # {} => MayAffect(r)
  PROVE  RequestInv'
<1>1. /\ answer' \in {"ok", "internal"} \cup Refusals /\ answer' # "none"
      /\ error' \in {"none"} \cup Errors
  BY DEF FineAnswer, Refusals
<1>2. RequestType'
  BY <1>1 DEF RequestType
<1>3. OnItsWay' /\ OneThing'
  BY DEF OnItsWay, OneThing
<1>4. AnswerTellsTheTruth'
  BY DEF AnswerTellsTheTruth, FineAnswer
<1>5. FailuresAreNamed'
  BY DEF FailuresAreNamed, FineAnswer
<1>6. OnlyAllowedEffects'
  BY DEF OnlyAllowedEffects, MayAffect
<1>7. QED BY <1>2, <1>3, <1>4, <1>5, <1>6 DEF RequestInv

\* A step that takes it further.
LEMMA Passed ==
  ASSUME RequestInv, NEW r \in Possible, request' = r, Sound(r),
         phase' \in {"find", "call", "list", "write"}, answer' = "none",
         list' = NoList, online' \in BOOLEAN, error' \in {"none"} \cup Errors,
         phase' = "find" => Service[r.op].needs # "nothing",
         phase' = "list" => ~Calls(r.op),
         phase' = "call" => Calls(r.op),
         phase' = "write" =>
           Service[r.op].writes /\ r.fault \notin {"malformed", "refused"},
         phase' \in {"call", "write"} => (Service[r.op].needs = "own" => r.msg \in Ours),
         effects' = IF phase' = "write" THEN {"whatsapp"} ELSE {},
         effects' # {} => MayAffect(r)
  PROVE  RequestInv'
<1>1. RequestType'
  BY DEF RequestType
<1>2. OnItsWay' /\ OneThing'
  BY DEF OnItsWay, OneThing
<1>3. AnswerTellsTheTruth' /\ FailuresAreNamed'
  BY DEF AnswerTellsTheTruth, FailuresAreNamed
<1>4. OnlyAllowedEffects'
  BY DEF OnlyAllowedEffects, MayAffect
<1>5. QED BY <1>1, <1>2, <1>3, <1>4 DEF RequestInv

\* What is in the names of a handler or of mapErr is told under its name.
LEMMA NamedFacts ==
  ASSUME NEW r \in Possible, NEW e \in Refusals \ {"unauthorized"}
  PROVE  /\ Named(r, e) \in {e, "internal"}
         /\ Named(r, e) = "internal" /\ r.over = "rest" => e \notin NewRouter[r.op].names
         /\ Named(r, e) = "internal" /\ r.over = "mcp" => e = "not_connected"
BY PossibleFacts DEF Named, Names, mapErr, Refusals


----------------------------------------------------------------------------
(* Each step keeps the invariant of requests.                              *)

\* The checks that need nothing but the request.
LEMMA SendKeeps ==
  ASSUME RequestInv, NEW r \in Possible, Send(r)
  PROVE  RequestInv'
<1>1. /\ phase = "idle" /\ effects = {} /\ answer = "none"
      /\ request' = r /\ list' = NoList /\ effects' = {}
      /\ online' = online /\ online \in BOOLEAN
      /\ error \in {"none"} \cup Errors
  BY DEF Send, RequestInv, RequestType, OnItsWay, pagingVars
<1>2. CASE Unauthorized(r)
  <2>1. /\ phase' = "answered" /\ answer' = "unauthorized"
        /\ error' = "unauthorized"
    BY <1>2 DEF Unauthorized, Refuse
  <2>2. FineAnswer(answer', effects', error', r)
    BY <1>1, <2>1 DEF FineAnswer, Refusals, Errors
  <2>3. QED BY <1>1, <2>1, <2>2, Answered
<1>3. CASE InvalidRequest(r)
  <2>1. phase' = "answered" /\ error' = "invalid"
    BY <1>3 DEF InvalidRequest, Refuse
  <2>2. \/ answer' = "invalid"
        \/ answer' = Named(r, "invalid")
             /\ (r.fault = "value" \/ (r.fault = "omitted" /\ r.over = "mcp"))
    BY <1>3 DEF InvalidRequest, Refuse
  <2>3. /\ Named(r, "invalid") \in {"invalid", "internal"}
        /\ Named(r, "invalid") = "internal" =>
             r.over = "rest" /\ "invalid" \notin NewRouter[r.op].names
    BY NamedFacts, PossibleFacts DEF Refusals
  <2>4. answer' \in {"invalid", "internal"}
    BY <2>2, <2>3
  <2>5. answer' = "internal" => r.over = "rest" /\ r.op = "chat" /\ r.fault = "value"
    BY <2>2, <2>3, PossibleFacts, Tables
  <2>6. FineAnswer(answer', effects', error', r)
    BY <1>1, <2>1, <2>4, <2>5 DEF FineAnswer, Refusals, Errors
  <2>7. QED BY <1>1, <2>1, <2>6, Answered
<1>4. CASE Accepted(r)
  <2>1. Sound(r)
    BY <1>4 DEF Accepted, Sound
  <2>2. /\ answer' = "none" /\ phase' \in {"find", "call", "list"}
        /\ error' = error
        /\ phase' = "find" => Service[r.op].needs # "nothing"
        /\ phase' = "list" => ~Calls(r.op)
        /\ phase' = "call" => Calls(r.op) /\ Service[r.op].needs = "nothing"
    BY <1>1, <1>4 DEF Accepted
  <2>3. QED BY <1>1, <2>1, <2>2, Passed
<1>5. QED BY <1>2, <1>3, <1>4 DEF Send

\* A request on its way, and what a step of the daemon leaves alone.
LEMMA Serving ==
  ASSUME RequestInv, phase \in {"find", "call", "list", "write"}, Serve
  PROVE  /\ request \in Possible /\ Sound(request) /\ request' = request
         /\ list' = NoList /\ online' \in BOOLEAN
         /\ error \in {"none"} \cup Errors
         /\ online' = online /\ answer = "none"
<1>1. request \in Possible /\ Sound(request) /\ list = NoList /\ answer = "none"
  BY DEF RequestInv, OnItsWay, OneThing, RequestType, Sound
<1>2. online \in BOOLEAN /\ error \in {"none"} \cup Errors
  BY DEF RequestInv, RequestType
<1>3. request' = request /\ list' = list /\ online' = online
  BY DEF Serve, StoreFails, ListRows, GetRow, FindMessage, NotConnected, Malformed,
         WhatsAppRefuses, CallFails, CallSucceeds, Write, WriteFails, Answer, pagingVars
<1>4. QED BY <1>1, <1>2, <1>3

\* The look into the store: nothing is changed, whatever it finds.
LEMMA FindKeeps ==
  ASSUME RequestInv, StoreFails \/ ListRows \/ GetRow \/ FindMessage
  PROVE  RequestInv'
<1> DEFINE r == request
<1>1. /\ phase \in {"find", "list"} /\ Serve /\ effects = {} /\ effects' = {}
      /\ phase = "find" => Service[r.op].needs # "nothing"
      /\ phase = "list" => ~Calls(r.op)
  BY DEF StoreFails, ListRows, GetRow, FindMessage, Serve, RequestInv, OnItsWay
<1>2. /\ r \in Possible /\ Sound(r) /\ request' = r
      /\ list' = NoList /\ online' \in BOOLEAN /\ error \in {"none"} \cup Errors
      /\ answer = "none"
  BY <1>1, Serving
<1>3. r.op \in Operations /\ r.over \in {"rest", "mcp"}
  BY <1>2, PossibleFacts
<1> HIDE DEF r
<1>4. ASSUME phase' = "answered", FineAnswer(answer', {}, error', r)
      PROVE  RequestInv'
  BY <1>1, <1>2, <1>4, Answered
<1>5. CASE StoreFails
  <2>1. phase' = "answered" /\ answer' = "internal" /\ error' = "store"
    BY <1>5 DEF StoreFails, Answer, Refuse
  <2>2. QED BY <2>1, <1>4 DEF FineAnswer, Refusals, Errors
<1>6. CASE ListRows
  <2>1. /\ phase' = "answered" /\ phase = "list"
        /\ \/ answer' = "internal" /\ error' = "malformed"
           \/ answer' = "ok" /\ error' = "none"
    BY <1>6 DEF ListRows, Answer, Refuse, r
  <2>2. ~Changes(r.op)
    BY <2>1, <1>1 DEF Changes, r
  <2>3. QED BY <2>1, <2>2, <1>4 DEF FineAnswer, Refusals, Errors
<1>7. CASE GetRow
  <2>1. /\ phase' = "answered" /\ Service[r.op].needs = "row"
        /\ \/ answer' = "ok" /\ error' = "none"
           \/ answer' = Named(r, "not_found") /\ error' = "not_found"
    BY <1>7 DEF GetRow, Answer, Refuse, r
  <2>2. Named(r, "not_found") = "not_found"
    BY <2>1, <1>2, <1>3, NamedFacts, Tables DEF Refusals
  <2>3. ~Changes(r.op)
    BY <2>1, <1>3, Tables DEF Changes
  <2>4. QED BY <2>1, <2>2, <2>3, <1>4 DEF FineAnswer, Refusals, Errors
<1>8. CASE FindMessage
  <2>1. Service[r.op].needs \in {"own", "message"}
    BY <1>8 DEF FindMessage, r
  <2>2. CASE phase' = "answered"
    <3>1. \/ answer' = Named(r, "not_found") /\ error' = "not_found"
          \/ /\ answer' = Named(r, "forbidden") /\ error' = "forbidden"
             /\ Service[r.op].needs = "own"
      BY <1>8, <2>2 DEF FindMessage, Answer, Refuse, MayChange, r
    <3>2. Named(r, "not_found") = "not_found"
      BY <2>1, <1>2, <1>3, NamedFacts, Tables DEF Refusals
    <3>3. Service[r.op].needs = "own" => Named(r, "forbidden") = "forbidden"
      BY <1>2, <1>3, NamedFacts, Tables DEF Refusals
    <3>4. answer' \in {"not_found", "forbidden"} /\ error' = answer'
      BY <3>1, <3>2, <3>3
    <3>5. QED BY <3>4, <2>2, <1>4 DEF FineAnswer, Refusals, Errors
  <2>3. CASE phase' # "answered"
    <3>1. /\ phase' = "call" /\ answer' = "none" /\ error' = error
          /\ MayChange
      BY <1>8, <1>2, <2>3 DEF FindMessage, Answer, Refuse
    <3>2. Service[r.op].needs = "own" => r.msg \in Ours
      BY <3>1 DEF MayChange, r
    <3>3. Calls(r.op)
      BY <2>1, <1>3, Tables
    <3>4. QED BY <3>1, <3>2, <3>3, <1>1, <1>2, Passed
  <2>4. QED BY <2>2, <2>3
<1>9. QED BY <1>5, <1>6, <1>7, <1>8


\* The exchange with WhatsApp: what fails before it has changed nothing, and
\* what fails in it is no refusal.
LEMMA CallKeeps ==
  ASSUME RequestInv,
         \/ NotConnected \/ Malformed \/ WhatsAppRefuses
         \/ CallFails \/ CallSucceeds
  PROVE  RequestInv'
<1> DEFINE r == request
<1>1. /\ phase = "call" /\ Serve /\ effects = {} /\ Calls(r.op)
      /\ Service[r.op].needs = "own" => r.msg \in Ours
  BY DEF NotConnected, Malformed, WhatsAppRefuses, CallFails, CallSucceeds,
         Serve, RequestInv, OnItsWay
<1>2. /\ r \in Possible /\ Sound(r) /\ request' = r
      /\ list' = NoList /\ online' \in BOOLEAN /\ error \in {"none"} \cup Errors
      /\ answer = "none"
  BY <1>1, Serving
<1>3. r.op \in Operations /\ r.over \in {"rest", "mcp"} /\ r.fault \in Faults
  BY <1>2, PossibleFacts
<1> HIDE DEF r
<1>4. Changes(r.op) /\ r.fault \notin {"malformed", "refused"} => MayAffect(r)
  BY <1>1, <1>2, <1>3, Tables DEF MayAffect, Sound, Faults
<1>5. CASE NotConnected
  <2>1. /\ phase' = "answered" /\ effects' = {} /\ answer' = Named(r, "not_connected")
        /\ error' = "not_connected"
    BY <1>1, <1>5 DEF NotConnected, Answer, Refuse, r
  <2>2. /\ Named(r, "not_connected") \in {"not_connected", "internal"}
        /\ Named(r, "not_connected") = "internal" => r.over = "mcp"
    BY <1>1, <1>2, <1>3, NamedFacts, Tables DEF Refusals
  <2>3. FineAnswer(answer', effects', error', r)
    BY <2>1, <2>2 DEF FineAnswer, Refusals, Errors
  <2>4. QED BY <2>1, <2>3, <1>2, Answered
<1>6. CASE Malformed \/ WhatsAppRefuses
  <2>1. /\ phase' = "answered" /\ effects' = {} /\ answer' = "internal"
        /\ error' \in {"malformed", "refused"}
    BY <1>1, <1>6 DEF Malformed, WhatsAppRefuses, Answer, Refuse
  <2>2. FineAnswer(answer', effects', error', r)
    BY <2>1 DEF FineAnswer, Refusals, Errors
  <2>3. QED BY <2>1, <2>2, <1>2, Answered
<1>7. CASE CallFails
  <2>1. /\ phase' = "answered" /\ answer' = "internal" /\ error' = "exchange"
        /\ effects' \subseteq {"whatsapp"} /\ r.fault # "malformed"
        /\ effects' # {} => Changes(r.op) /\ r.fault # "refused"
    BY <1>1, <1>7 DEF CallFails, Answer, Refuse, r
  <2>2. FineAnswer(answer', effects', error', r)
    BY <2>1 DEF FineAnswer, Refusals, Errors
  <2>3. QED BY <2>1, <2>2, <1>2, <1>4, Answered
<1>8. CASE CallSucceeds
  <2>1. /\ r.fault \notin {"malformed", "refused"}
        /\ effects' = IF Changes(r.op) THEN {"whatsapp"} ELSE {}
    BY <1>1, <1>8 DEF CallSucceeds, r
  <2>2. CASE Service[r.op].writes
    <3>1. phase' = "write" /\ answer' = "none" /\ error' = error
      BY <1>2, <1>8, <2>2 DEF CallSucceeds, r
    <3>2. Changes(r.op)
      BY <1>3, <2>2, Tables
    <3>3. QED BY <3>1, <3>2, <2>1, <2>2, <1>1, <1>2, <1>4, Passed
  <2>3. CASE ~Service[r.op].writes
    <3>1. phase' = "answered" /\ answer' = "ok" /\ error' = "none"
      BY <1>8, <2>3 DEF CallSucceeds, Answer, Refuse, r
    <3>2. FineAnswer(answer', effects', error', r)
      BY <3>1, <2>1 DEF FineAnswer, Refusals
    <3>3. effects' \subseteq {"whatsapp", "store"} /\ (effects' # {} => MayAffect(r))
      BY <2>1, <1>4
    <3>4. QED BY <3>1, <3>2, <3>3, <1>2, Answered
  <2>4. QED BY <2>2, <2>3
<1>9. QED BY <1>5, <1>6, <1>7, <1>8

\* What the store does afterwards says nothing to the client.
LEMMA WriteKeeps ==
  ASSUME RequestInv, Write \/ WriteFails
  PROVE  RequestInv'
<1>1. phase = "write" /\ Serve /\ effects = {"whatsapp"}
  BY DEF Write, WriteFails, Serve, RequestInv, OnItsWay
<1>2. /\ request \in Possible /\ Sound(request) /\ request' = request
      /\ list' = NoList /\ online' \in BOOLEAN /\ error \in {"none"} \cup Errors
  BY <1>1, Serving
<1>3. MayAffect(request)
  BY <1>1 DEF RequestInv, OnlyAllowedEffects, MayAffect
<1>4. /\ phase' = "answered" /\ answer' = "ok" /\ error' = "none"
      /\ "whatsapp" \in effects' /\ effects' \subseteq {"whatsapp", "store"}
  BY <1>1 DEF Write, WriteFails, Answer, Refuse
<1>5. FineAnswer(answer', effects', error', request)
  BY <1>4 DEF FineAnswer, Refusals
<1>6. QED BY <1>2, <1>3, <1>4, <1>5, Answered

\* Nothing but the daemon and the client itself moves a request.
LEMMA OthersKeep ==
  ASSUME RequestInv, UNCHANGED requestVars, online' \in BOOLEAN,
         phase = "idle" \/ list' = list
  PROVE  RequestInv'
<1>1. RequestType'
  BY DEF RequestInv, RequestType, requestVars
<1>2. OnItsWay'
  BY DEF RequestInv, OnItsWay, requestVars
<1>3. OneThing'
  BY DEF RequestInv, OneThing, requestVars
<1>4. AnswerTellsTheTruth' /\ FailuresAreNamed' /\ OnlyAllowedEffects'
  BY DEF RequestInv, AnswerTellsTheTruth, FailuresAreNamed, OnlyAllowedEffects, requestVars
<1>5. QED BY <1>1, <1>2, <1>3, <1>4 DEF RequestInv

\* Every step of the daemon and its client, one by one.
LEMMA RequestInvKept ==
  ASSUME RequestInv, [Next]_vars
  PROVE  RequestInv'
<1>0. online \in BOOLEAN
  BY DEF RequestInv, RequestType
<1>1. CASE \E r \in Possible : Send(r)
  BY <1>1, SendKeeps
<1>2. CASE Serve
  BY <1>2, FindKeeps, CallKeeps, WriteKeeps DEF Serve
<1>3. CASE Received
  <2>1. /\ phase' = "idle" /\ answer' = "none" /\ effects' = {} /\ error' = "none"
        /\ online' = online
    BY <1>3 DEF Received, Idle
  <2>2. QED
    BY <2>1, <1>0 DEF RequestInv, RequestType, OnItsWay, OneThing, AnswerTellsTheTruth,
                      FailuresAreNamed, OnlyAllowedEffects
<1>4. CASE phase = "idle" /\ (\E l \in Chats \cup {ChatList} : StartWalk(l))
             /\ UNCHANGED <<online, requestVars>>
  BY <1>4, <1>0, OthersKeep
<1>5. CASE (ReadPage \/ EndWalk) /\ UNCHANGED <<online, requestVars>>
  <2>1. phase = "idle"
    BY <1>5 DEF ReadPage, EndWalk, RequestInv, OneThing
  <2>2. QED BY <2>1, <1>5, <1>0, OthersKeep
<1>6. CASE Handle /\ UNCHANGED <<online, requestVars>>
  <2>1. list' = list
    BY <1>6 DEF Handle, HandleChat, HandleMessage, HandleRevoke, Watch, walk
  <2>2. QED BY <2>1, <1>6, <1>0, OthersKeep
<1>7. CASE online' = ~online /\ UNCHANGED <<pagingVars, requestVars>>
  <2>1. list' = list /\ online' \in BOOLEAN /\ UNCHANGED requestVars
    BY <1>7, <1>0 DEF pagingVars
  <2>2. QED BY <2>1, OthersKeep
<1>8. CASE UNCHANGED vars
  BY <1>8, <1>0, OthersKeep DEF vars, pagingVars
<1>9. QED BY <1>1, <1>2, <1>3, <1>4, <1>5, <1>6, <1>7, <1>8 DEF Next


----------------------------------------------------------------------------
(* Each step keeps the invariant of walks.                                 *)

\* What a request writes, it writes while no walk is going on, and only rows
\* of messages of ours, which the handler of incoming messages never has in
\* hand.
LEMMA WriteKeepsWalk ==
  ASSUME PagingAssumption, PagingType, WalkInv, RequestInv, Write
  PROVE  PagingType' /\ WalkInv'
<1> DEFINE m == request.msg
<1>1. /\ UNCHANGED <<handling, list, cursor, got, again, cuts, still>>
      /\ phase = "write" /\ Serve
  BY DEF Write, Serve
<1>2. /\ list = NoList /\ got = {} /\ again = {} /\ still = {}
      /\ request \in Possible /\ Sound(request)
  <2>1. list = NoList
    BY <1>1 DEF RequestInv, OneThing
  <2>2. request \in Possible /\ Sound(request)
    BY <1>1, Serving
  <2>3. QED BY <2>1, <2>2 DEF WalkInv, NothingWalked
<1>3. /\ request.op \in {"sendText", "sendMedia"} => m \in Ours /\ m \in Msgs
      /\ request.op \in {"edit", "delete", "react", "read"} => m \in Msgs
  BY <1>2, TargetFacts DEF PagingAssumption
<1> HIDE DEF m
<1>4. /\ ts \in [Msgs -> 0 .. MaxSecond] /\ lastAt \in [Chats -> 0 .. MaxSecond]
      /\ deleted \subseteq Msgs /\ ChatOf \in [Msgs -> Chats] /\ Finite /\ SameTime
      /\ MaxSecond \in Nat
  BY DEF PagingType, PagingAssumption, WalkInv
<1>5. /\ ts' \in [Msgs -> 0 .. MaxSecond]
      /\ lastAt' \in [Chats -> 0 .. MaxSecond] /\ deleted' \subseteq Msgs
      /\ Rows' \subseteq Rows \cup {m} /\ \E c \in Chats : ChatRows' \subseteq ChatRows \cup {c}
      /\ \A k \in Msgs \ Ours : ts'[k] = ts[k]
  <2>1. CASE request.op \in {"sendText", "sendMedia"} /\ \E t \in Seconds : WriteSent(m, t)
    <3>1. PICK t \in Seconds : WriteSent(m, t)
      BY <2>1
    <3>2. m \in Ours /\ m \in Msgs /\ t \in 0 .. MaxSecond /\ ChatOf[m] \in Chats
      BY <2>1, <1>3, <1>4 DEF Seconds
    <3>3. /\ lastAt' = [lastAt EXCEPT ![ChatOf[m]] = t] \/ lastAt' = lastAt
          /\ deleted' = deleted
          /\ ts' = [ts EXCEPT ![m] = t] \/ ts' = ts
      BY <3>1 DEF WriteSent
    <3>4. Rows' \subseteq Rows \cup {m} /\ ChatRows' \subseteq ChatRows \cup {ChatOf[m]}
      BY <3>2, <3>3, <1>4 DEF Rows, ChatRows
    <3>5. QED BY <3>2, <3>3, <3>4, <1>4
  <2>2. CASE request.op \in {"edit", "delete", "react", "read"}
             /\ UNCHANGED <<ts, lastAt>> /\ deleted' \subseteq deleted \cup {m}
    <3>1. m \in Msgs /\ ChatOf[m] \in Chats
      BY <2>2, <1>3, <1>4
    <3>2. QED BY <2>2, <3>1, <1>4 DEF Rows, ChatRows
  <2>3. CASE \E c \in Chats, t \in Seconds : WriteGroup(c, t)
    <3>1. PICK c \in Chats, t \in Seconds : WriteGroup(c, t)
      BY <2>3
    <3>2. /\ lastAt' = [lastAt EXCEPT ![c] = t] /\ deleted' = deleted /\ ts' = ts
          /\ t \in 0 .. MaxSecond
      BY <3>1, <1>4 DEF WriteGroup, Seconds
    <3>3. Rows' \subseteq Rows \cup {m} /\ ChatRows' \subseteq ChatRows \cup {c}
      BY <3>2, <1>4 DEF Rows, ChatRows
    <3>4. QED BY <3>2, <3>3, <1>4
  <2>4. QED BY <2>1, <2>2, <2>3 DEF Write, WriteEdit, WriteDelete, m
<1>6. Finite'
  BY <1>4, <1>5, OneMore DEF Finite
<1>7. SameTime'
  <2> SUFFICES ASSUME handling # <<>>
               PROVE  handling[1] \notin Ours /\ ts'[handling[1]] \in {0, handling[2]}
    BY <1>1 DEF SameTime
  <2>1. handling[1] \in Msgs
    BY DEF PagingType
  <2>2. QED BY <2>1, <1>4, <1>5 DEF SameTime
<1>8. PagingType'
  BY <1>1, <1>2, <1>5 DEF PagingType
<1>9. list # ChatList
  BY <1>2 DEF NoList, ChatList
<1>10. QED
  BY <1>1, <1>2, <1>6, <1>7, <1>8, <1>9
  DEF WalkInv, NothingWalked, Reached, Behind, ShownAgainOnlyIfMoved

\* A step of the daemon or its client is one of Paging, a write, or none.
LEMMA WalkInvKept ==
  ASSUME PagingAssumption, PagingType, WalkInv, RequestInv, [Next]_vars
  PROVE  PagingType' /\ WalkInv'
<1>1. CASE UNCHANGED pagingVars
  BY <1>1 DEF pagingVars, PagingType, RowsOf, WalkInv, Finite, Rows, ChatRows, SameTime,
              NothingWalked, Reached, Behind, TimeOf, MessageTime, ShownAgainOnlyIfMoved
<1>2. CASE Write
  BY <1>2, WriteKeepsWalk
<1>3. CASE (\E l \in Chats \cup {ChatList} : StartWalk(l)) \/ ReadPage \/ EndWalk \/ Handle
  BY <1>3, StartWalkKeeps, ReadPageKeeps, EndWalkKeeps, HandleKeeps
<1>4. [Next]_vars => \/ UNCHANGED pagingVars \/ Write
                     \/ \E l \in Chats \cup {ChatList} : StartWalk(l)
                     \/ ReadPage \/ EndWalk \/ Handle
  BY DEF Next, vars, Send, Serve, Received, StoreFails, ListRows, GetRow, FindMessage,
         NotConnected, Malformed, WhatsAppRefuses, CallFails, CallSucceeds, WriteFails,
         Answer, Refuse
<1>5. QED BY <1>1, <1>2, <1>3, <1>4

----------------------------------------------------------------------------
(* The theorems.                                                           *)

Inv == PagingType /\ WalkInv /\ RequestInv

\* A row that stays is reached by every walk, no answer misleads, and nothing
\* is changed without leave: together these are kept by every step.
LEMMA RequestsSafe == Spec => []Inv
<1>1. Init => Inv
  <2> SUFFICES ASSUME Init PROVE Inv
    OBVIOUS
  <2>1. PagingType /\ WalkInv
    BY PagingAssumption, PagingInitOK DEF Init
  <2>2. RequestInv
    BY DEF Init, PagingInit, RequestInv, RequestType, OnItsWay, OneThing,
           AnswerTellsTheTruth, FailuresAreNamed, OnlyAllowedEffects
  <2>3. QED BY <2>1, <2>2 DEF Inv
<1>2. Inv /\ [Next]_vars => Inv'
  BY PagingAssumption, WalkInvKept, RequestInvKept DEF Inv
<1>3. QED BY <1>1, <1>2, PTL DEF Spec

\* The tables, the walk and the request keep their types, whatever is asked
\* for and whatever fails; and there is an answer exactly when it was given.
THEOREM RequestsTypeCorrect == Spec => []TypeOK
<1>1. Inv => TypeOK
  BY DEF Inv, PagingType, RequestInv, RequestType, TypeOK
<1>2. QED BY <1>1, RequestsSafe, PTL

\* For every operation of both transports: a refusal means that nothing was
\* done, a success that WhatsApp was told.
THEOREM RequestsAnswersTrue == Spec => []AnswerTellsTheTruth
<1>1. Inv => AnswerTellsTheTruth
  BY DEF Inv, RequestInv
<1>2. QED BY <1>1, RequestsSafe, PTL

\* For every operation of both transports: an error without a name is about a
\* failure of the daemon, with the exceptions that FailuresAreNamed lists.
THEOREM RequestsFailuresNamed == Spec => []FailuresAreNamed
<1>1. Inv => FailuresAreNamed
  BY DEF Inv, RequestInv
<1>2. QED BY <1>1, RequestsSafe, PTL

\* For every operation of both transports: what changes anything had a good
\* token, was sound, and about a message of ours where it must be.
THEOREM RequestsEffectsAllowed == Spec => []OnlyAllowedEffects
<1>1. Inv => OnlyAllowedEffects
  BY DEF Inv, RequestInv
<1>2. QED BY <1>1, RequestsSafe, PTL

\* However many rows, whatever the page size and whatever is handled meanwhile:
\* only rows of a second at which a page was cut can be missed.
THEOREM WalksShowWhatStayed == Spec => []WalkShowsWhatStayed
<1>1. Inv => WalkShowsWhatStayed
  BY PagingAssumption, WalkInvShows DEF Inv
<1>2. QED BY <1>1, RequestsSafe, PTL

\* However many rows, whatever the page size and whatever is handled meanwhile:
\* no message comes twice in a walk, and a chat only if it has moved.
THEOREM WalksRepeatOnlyMoved == Spec => []ShownAgainOnlyIfMoved
<1>1. Inv => ShownAgainOnlyIfMoved
  BY DEF Inv, WalkInv
<1>2. QED BY <1>1, RequestsSafe, PTL


\* A client that asks for another page asks for an earlier one: with every page
\* it reads the cursor goes back, however busy the account is.  A walk has
\* therefore at most MaxSecond + 1 pages, which is the argument behind WalksEnd.
THEOREM WalksGoBack == Spec => [][ReadPage => cursor' < cursor]_vars
<1>1. Inv /\ [Next]_vars => [ReadPage => cursor' < cursor]_vars
  BY PagingAssumption, ReadPageGoesBack DEF Inv, WalkInv
<1>2. QED BY <1>1, RequestsSafe, PTL DEF Spec

=============================================================================
