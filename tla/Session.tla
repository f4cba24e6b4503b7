------------------------------ MODULE Session ------------------------------
(***************************************************************************)
(* The WhatsApp session of the daemon: the adapter's LoginQR, LoginPhone   *)
(* and Logout with the goroutines and channels they leave behind, the HTTP *)
(* handlers, the MCP tools and the CLI that consume a pairing stream, and  *)
(* whatsmeow with its server as the environment.                           *)
(*                                                                         *)
(* Every login request is used once.  A code is "code", whatever it says.  *)
(* What a login has sent on its channel stays in `sent`; `taken` and       *)
(* `seen` are how far the handler and the client have read.                *)
(***************************************************************************)
EXTENDS Naturals, Sequences

CONSTANTS
  Logins,      \* login requests
  NoLogin,
  OutCap,      \* capacity of the QR login's channel
  MaxCodes,    \* bound: codes whatsmeow shows in one QR login
  MaxDrops,    \* bound: connections lost
  MaxLogouts   \* bound: calls of Logout and logouts by the phone

ASSUME SessionAssumption ==
  /\ NoLogin \notin Logins
  /\ OutCap \in Nat \ {0} /\ MaxCodes \in Nat
  /\ MaxDrops \in Nat /\ MaxLogouts \in Nat

VARIABLES
  linked,    \* whatsmeow: the store has a device id
  conn,      \* whatsmeow: "down", "up" or, logged in, "in"
  linkCode,  \* whatsmeow: a phone may still enter a pairing code
  qrOpen,    \* whatsmeow: the QR channels not yet closed
  qrCh,      \* whatsmeow: what each QR channel holds
  codes,     \* whatsmeow: codes it showed in each QR login
  loginInProgress, \* adapter: the flag
  pairCh,          \* adapter: the login whose channel PairSuccess signals
  muHeld,          \* adapter: Logout keeps mu through its network call
  kind,      \* per login: "qr" or "phone"
  via,       \* per login: "cli" over REST, or "mcp"
  pc,        \* per login: where LoginQR or LoginPhone, then its goroutine, is
  item,      \* per login: the event the goroutine has in hand
  pair,      \* per login: the one-place channel of a phone login
  sent,      \* per login: the events put on its channel
  taken,     \* per login: how many its handler received
  live,      \* per login: the request's context is not done
  reading,   \* per login: the handler still runs
  seen,      \* per login: how many frames the CLI has read
  cli,       \* per login: what the CLI is at, or has told its user
  paired,    \* history: the logins during which the account was linked
  drops, logouts

whatsmeow == <<linked, conn, linkCode, qrOpen, qrCh, codes, paired>>
adapter   == <<loginInProgress, pairCh, muHeld>>
request   == <<kind, via>>
routine   == <<pc, item, pair, sent>>
handler   == <<taken, live, reading>>
client    == <<seen, cli>>
limits    == <<drops, logouts>>
sessionVars == <<linked, conn, linkCode, qrOpen, qrCh, codes, paired,
                 loginInProgress, pairCh, muHeld, kind, via, pc, item, pair,
                 sent, taken, live, reading, seen, cli, drops, logouts>>

Outcomes == {"success", "timeout", "error", "cancelled"}
Items    == Outcomes \cup {"code"}

SessionInit ==
  /\ linked \in BOOLEAN /\ conn = "down" /\ linkCode = FALSE
  /\ qrOpen = {} /\ qrCh = [l \in Logins |-> <<>>]
  /\ codes = [l \in Logins |-> 0] /\ paired = {}
  /\ loginInProgress = FALSE /\ pairCh = NoLogin /\ muHeld = FALSE
  /\ kind = [l \in Logins |-> "qr"] /\ via = [l \in Logins |-> "cli"]
  /\ pc = [l \in Logins |-> "idle"] /\ item = [l \in Logins |-> "code"]
  /\ pair = [l \in Logins |-> <<>>] /\ sent = [l \in Logins |-> <<>>]
  /\ taken = [l \in Logins |-> 0] /\ live = [l \in Logins |-> TRUE]
  /\ reading = {} /\ seen = [l \in Logins |-> 0]
  /\ cli = [l \in Logins |-> "waiting"]
  /\ drops = 0 /\ logouts = 0

-----------------------------------------------------------------------------
(* LoginQR and LoginPhone, up to the start of their goroutine.             *)

Unlocked == ~muHeld

Goto(l, from, to) == pc[l] = from /\ pc' = [pc EXCEPT ![l] = to]

\* The handler returns, and with it the request's context ends.
Leave(l) ==
  /\ reading' = reading \ {l}
  /\ live' = [live EXCEPT ![l] = FALSE]

\* The request is answered with a problem instead of a stream: 409 when the
\* account is logged in or a login runs, 500 otherwise.
Refuse(l, from) ==
  /\ Goto(l, from, "done")
  /\ Leave(l)
  /\ cli' = [cli EXCEPT ![l] = "refused"]
  /\ UNCHANGED <<item, pair, sent, taken, seen>>

LoggedIn == linked /\ conn = "in"

\* The checks under mu, which also claim the flag and, for a phone, the
\* channel.  Opening the device may fail.
Login(l, k, v) ==
  /\ Unlocked
  /\ pc[l] = "idle"
  /\ kind' = [kind EXCEPT ![l] = k] /\ via' = [via EXCEPT ![l] = v]
  /\ \/ Refuse(l, "idle") /\ UNCHANGED adapter
     \/ /\ ~LoggedIn /\ ~loginInProgress
        /\ loginInProgress' = TRUE
        /\ pairCh' = IF k = "phone" THEN l ELSE pairCh
        /\ Goto(l, "idle", "open")
        /\ reading' = reading \cup {l}
        /\ UNCHANGED <<muHeld, item, pair, sent, taken, live, client>>
  /\ UNCHANGED <<whatsmeow, limits>>

\* The flag goes, and a phone login takes its channel with it.
Release(l) ==
  /\ Unlocked
  /\ loginInProgress' = FALSE
  /\ pairCh' = IF kind[l] = "phone" THEN NoLogin ELSE pairCh
  /\ UNCHANGED muHeld

GiveUp(l, from) == Release(l) /\ Refuse(l, from)

\* GetQRChannel refuses a client that is connected or has a device.
OpenQR(l) ==
  /\ pc[l] = "open" /\ kind[l] = "qr"
  /\ \/ /\ ~linked /\ conn = "down"
        /\ Goto(l, "open", "dial")
        /\ qrOpen' = qrOpen \cup {l}
        /\ UNCHANGED <<adapter, item, pair, sent, handler, client>>
     \/ GiveUp(l, "open") /\ UNCHANGED qrOpen
  /\ UNCHANGED <<linked, conn, linkCode, qrCh, codes, paired, request, limits>>

\* Connect refuses a client that is connected, and may fail.  A QR channel
\* that was opened before stays open.
Dial(l) ==
  /\ pc[l] = IF kind[l] = "qr" THEN "dial" ELSE "open"
  /\ \/ /\ conn = "down" /\ conn' = "up"
        /\ pc' = [pc EXCEPT ![l] = IF kind[l] = "qr" THEN "range" ELSE "pair"]
        /\ UNCHANGED <<adapter, item, pair, sent, handler, client>>
     \/ GiveUp(l, pc[l]) /\ UNCHANGED conn
  /\ UNCHANGED <<linked, linkCode, qrOpen, qrCh, codes, paired, request,
                 limits>>

\* PairPhone: the code is the first event of the stream.
PairPhone(l) ==
  /\ pc[l] = "pair"
  /\ \/ /\ conn # "down"
        /\ Goto(l, "pair", "wait")
        /\ sent' = [sent EXCEPT ![l] = <<"code">>]
        /\ linkCode' = ~linked
        /\ UNCHANGED <<adapter, item, pair, handler, client>>
     \/ GiveUp(l, "pair") /\ UNCHANGED linkCode
  /\ UNCHANGED <<linked, conn, qrOpen, qrCh, codes, paired, request, limits>>

-----------------------------------------------------------------------------
(* The goroutines.                                                         *)

Room(l) == Len(sent[l]) - taken[l] < (IF kind[l] = "phone" THEN 2 ELSE OutCap)

QRTake(l) ==
  /\ pc[l] = "range" /\ qrCh[l] # <<>>
  /\ item' = [item EXCEPT ![l] = Head(qrCh[l])]
  /\ qrCh' = [qrCh EXCEPT ![l] = Tail(@)]
  /\ Goto(l, "range", IF Head(qrCh[l]) = "code" THEN "sendCode" ELSE "sendTerm")
  /\ UNCHANGED <<linked, conn, linkCode, qrOpen, codes, paired, adapter,
                 request, pair, sent, handler, client, limits>>

\* whatsmeow closed the channel without a last item: the loop just ends.
QREnd(l) ==
  /\ qrCh[l] = <<>> /\ l \notin qrOpen
  /\ Goto(l, "range", "clear")
  /\ UNCHANGED <<whatsmeow, adapter, request, item, pair, sent, handler,
                 client, limits>>

SendCode(l) ==
  /\ \/ /\ Room(l)
        /\ sent' = [sent EXCEPT ![l] = Append(@, "code")]
        /\ Goto(l, "sendCode", "range")
        /\ UNCHANGED item
     \/ /\ ~live[l]
        /\ item' = [item EXCEPT ![l] = "cancelled"]
        /\ Goto(l, "sendCode", "sendTerm")
        /\ UNCHANGED sent
  /\ UNCHANGED <<whatsmeow, adapter, request, pair, handler, client, limits>>

\* The select of a phone login: outcome, end of the request, or 150 s.
PhoneWait(l) ==
  /\ \/ pair[l] # <<>> /\ item' = [item EXCEPT ![l] = Head(pair[l])]
     \/ ~live[l] /\ item' = [item EXCEPT ![l] = "cancelled"]
     \/ item' = [item EXCEPT ![l] = "timeout"]
  /\ Goto(l, "wait", "sendTerm")
  /\ UNCHANGED <<whatsmeow, adapter, request, pair, sent, handler, client,
                 limits>>

\* The last event has no way out when the channel is full.
SendTerm(l) ==
  /\ Room(l)
  /\ sent' = [sent EXCEPT ![l] = Append(@, item[l])]
  /\ Goto(l, "sendTerm", "clear")
  /\ UNCHANGED <<whatsmeow, adapter, request, item, pair, handler, client,
                 limits>>

\* Fault: the deferred function forgets the flag.
ClearNothing(l) ==
  /\ Goto(l, "clear", "close")
  /\ UNCHANGED <<whatsmeow, adapter, request, item, pair, sent, handler,
                 client, limits>>

\* The deferred functions, in their order: the flag first, then close(out).
Clear(l) ==
  /\ Goto(l, "clear", "close")
  /\ Release(l)
  /\ UNCHANGED <<whatsmeow, request, item, pair, sent, handler, client, limits>>

\* Fault: the pairing channel is given up last, not with the flag.
CloseGivesUpChannel(l) ==
  /\ Goto(l, "close", "done")
  /\ pairCh' = NoLogin
  /\ UNCHANGED <<whatsmeow, loginInProgress, muHeld, request, item, pair, sent,
                 handler, client, limits>>

Close(l) ==
  /\ Goto(l, "close", "done")
  /\ UNCHANGED <<whatsmeow, adapter, request, item, pair, sent, handler,
                 client, limits>>

-----------------------------------------------------------------------------
(* The consumers of the channel.                                           *)

\* LoginQRHandler and LoginPhoneHandler write a frame per event, return
\* after the last, and do not look at write errors or at the context.
Forward(l) ==
  /\ l \in reading /\ via[l] = "cli"
  /\ taken[l] < Len(sent[l])
  /\ taken' = [taken EXCEPT ![l] = @ + 1]
  /\ IF sent[l][taken[l] + 1] \in Outcomes
       THEN Leave(l) ELSE UNCHANGED <<live, reading>>
  /\ UNCHANGED <<whatsmeow, adapter, request, routine, client, limits>>

StreamEnds(l) ==
  /\ l \in reading /\ via[l] = "cli"
  /\ taken[l] = Len(sent[l]) /\ pc[l] = "done"
  /\ Leave(l)
  /\ UNCHANGED <<whatsmeow, adapter, request, routine, taken, client, limits>>

\* Fault: the context of the tool call does not end with the call.
ToolReturnsOnly(l) ==
  /\ l \in reading /\ via[l] = "mcp"
  /\ taken[l] < Len(sent[l])
  /\ taken' = [taken EXCEPT ![l] = @ + 1]
  /\ reading' = reading \ {l}
  /\ UNCHANGED <<whatsmeow, adapter, request, routine, live, client, limits>>

\* The MCP tools answer with the first event, or with an empty one when the
\* channel is closed, and leave.
ToolReturns(l) ==
  /\ l \in reading /\ via[l] = "mcp"
  /\ \/ taken[l] < Len(sent[l]) /\ taken' = [taken EXCEPT ![l] = @ + 1]
     \/ taken[l] = Len(sent[l]) /\ pc[l] = "done" /\ UNCHANGED taken
     \/ ~live[l] /\ UNCHANGED taken
  /\ Leave(l)
  /\ UNCHANGED <<whatsmeow, adapter, request, routine, client, limits>>

\* The client goes away before the handler returns.
HangUp(l) ==
  /\ l \in reading /\ live[l]
  /\ live' = [live EXCEPT ![l] = FALSE]
  /\ cli' = [cli EXCEPT ![l] = "gone"]
  /\ UNCHANGED <<whatsmeow, adapter, request, routine, taken, reading, seen,
                 limits>>

\* client.LoginQR and LoginPhone hand every frame to the command, which
\* tells its user how the last one ended.
CliRead(l) ==
  /\ cli[l] = "waiting" /\ seen[l] < taken[l] /\ via[l] = "cli"
  /\ seen' = [seen EXCEPT ![l] = @ + 1]
  /\ cli' = [cli EXCEPT ![l] = LET e == sent[l][seen[l] + 1] IN
                               CASE e = "code"    -> "waiting"
                                 [] e = "success" -> "logged in"
                                 [] OTHER         -> "failed"]
  /\ UNCHANGED <<whatsmeow, adapter, request, routine, handler, limits>>

\* "pairing stream closed without terminal event"
CliStreamClosed(l) ==
  /\ cli[l] = "waiting" /\ seen[l] = taken[l] /\ via[l] = "cli"
  /\ l \notin reading /\ pc[l] # "idle"
  /\ cli' = [cli EXCEPT ![l] = "failed"]
  /\ UNCHANGED <<whatsmeow, adapter, request, routine, handler, seen, limits>>

-----------------------------------------------------------------------------
(* whatsmeow and its server.                                               *)

Started(l) == pc[l] \in {"range", "sendCode", "sendTerm", "clear", "close", "done"}

\* A last item on the QR channels in ls, which are then closed.
CloseQR(ls, i) ==
  /\ qrOpen' = qrOpen \ ls
  /\ qrCh' = [l \in Logins |-> IF l \in ls THEN Append(qrCh[l], i) ELSE qrCh[l]]

\* One code every 20 s: time enough for a waiting tool to take the last.
ShowCode(l) ==
  /\ l \in qrOpen /\ Started(l) /\ conn = "up" /\ ~linked /\ live[l]
  /\ codes[l] < MaxCodes
  /\ via[l] = "mcp" /\ l \in reading =>
       qrCh[l] = <<>> /\ taken[l] = Len(sent[l]) /\ pc[l] = "range"
  /\ codes' = [codes EXCEPT ![l] = @ + 1]
  /\ qrCh' = [qrCh EXCEPT ![l] = Append(@, "code")]
  /\ UNCHANGED <<linked, conn, linkCode, qrOpen, paired, adapter, request,
                 routine, handler, client, limits>>

\* It has no more codes, and disconnects.
CodesRunOut(l) ==
  /\ l \in qrOpen /\ Started(l) /\ live[l]
  /\ CloseQR({l}, "timeout")
  /\ conn' = "down" /\ linkCode' = FALSE
  /\ UNCHANGED <<linked, codes, paired, adapter, request, routine, handler,
                 client, limits>>

\* The context ended: the channel is closed without an item.  One that was
\* left open by a failed Connect notices with the next connection, and ends
\* that one.
QRCancelled(l) ==
  /\ l \in qrOpen /\ ~live[l]
  /\ pc[l] = "done" => conn = "up"
  /\ qrOpen' = qrOpen \ {l}
  /\ conn' = "down" /\ linkCode' = FALSE
  /\ UNCHANGED <<linked, qrCh, codes, paired, adapter, request, routine,
                 handler, client, limits>>

\* Fault: whatsmeow's event goes into the channel as it came.
SignalPairRaw(o) ==
  /\ Unlocked
  /\ pairCh' = NoLogin
  /\ pair' = IF pairCh \in Logins /\ pair[pairCh] = <<>>
               THEN [pair EXCEPT ![pairCh] = <<"code">>] ELSE pair
  /\ UNCHANGED <<loginInProgress, muHeld>>

\* Adapter.signalPair: the channel is taken once, and never blocks.
SignalPair(o) ==
  /\ Unlocked
  /\ pairCh' = NoLogin
  /\ pair' = IF pairCh \in Logins /\ pair[pairCh] = <<>>
               THEN [pair EXCEPT ![pairCh] = <<o>>] ELSE pair
  /\ UNCHANGED <<loginInProgress, muHeld>>

Pairable == conn = "up" /\ ~linked /\
            (linkCode \/ \E l \in qrOpen : codes[l] > 0)

Holds(l) == pc[l] \in {"open", "dial", "pair", "range", "sendCode", "wait",
                       "sendTerm", "clear"}

PairSuccess ==
  /\ Pairable
  /\ linked' = TRUE /\ linkCode' = FALSE
  /\ paired' = paired \cup {l \in Logins : Holds(l)}
  /\ CloseQR(qrOpen, "success")
  /\ SignalPair("success")
  /\ UNCHANGED <<conn, codes, request, pc, item, sent, handler, client, limits>>

\* Fault: an error counts as an outcome like any other.
PairErrorIsSuccess ==
  /\ Pairable
  /\ linkCode' = FALSE
  /\ CloseQR(qrOpen, "error")
  /\ SignalPair("success")
  /\ UNCHANGED <<linked, conn, codes, paired, request, pc, item, sent, handler,
                 client, limits>>

PairError ==
  /\ Pairable
  /\ linkCode' = FALSE
  /\ CloseQR(qrOpen, "error")
  /\ SignalPair("error")
  /\ UNCHANGED <<linked, conn, codes, paired, request, pc, item, sent, handler,
                 client, limits>>

\* The Connected event.
LogIn ==
  /\ linked /\ conn = "up"
  /\ conn' = "in"
  /\ UNCHANGED <<linked, linkCode, qrOpen, qrCh, codes, paired, adapter,
                 request, routine, handler, client, limits>>

\* The Disconnected event.
Drop ==
  /\ conn # "down" /\ drops < MaxDrops
  /\ drops' = drops + 1
  /\ conn' = "down" /\ linkCode' = FALSE
  /\ CloseQR({l \in qrOpen : Started(l)}, "timeout")
  /\ UNCHANGED <<linked, codes, paired, adapter, request, routine, handler,
                 client, logouts>>

\* A device that has logged in before is connected again.
Reconnect ==
  /\ linked /\ conn = "down"
  /\ conn' = "up"
  /\ UNCHANGED <<linked, linkCode, qrOpen, qrCh, codes, paired, adapter,
                 request, routine, handler, client, limits>>

\* The LoggedOut event: the account was unlinked on the phone.
Unlinked ==
  /\ LoggedIn /\ logouts < MaxLogouts
  /\ logouts' = logouts + 1
  /\ linked' = FALSE /\ conn' = "down"
  /\ UNCHANGED <<linkCode, qrOpen, qrCh, codes, paired, adapter, request,
                 routine, handler, client, drops>>

\* Adapter.Logout keeps mu while whatsmeow tells the server.
Logout ==
  /\ Unlocked /\ LoggedIn /\ logouts < MaxLogouts
  /\ logouts' = logouts + 1
  /\ muHeld' = TRUE
  /\ UNCHANGED <<whatsmeow, loginInProgress, pairCh, request, routine, handler,
                 client, drops>>

LogoutEnds ==
  /\ muHeld /\ muHeld' = FALSE
  /\ \/ linked' = FALSE /\ conn' = "down"
     \/ UNCHANGED <<linked, conn>>
  /\ UNCHANGED <<linkCode, qrOpen, qrCh, codes, paired, loginInProgress, pairCh,
                 request, routine, handler, client, limits>>

-----------------------------------------------------------------------------
NewLogin == \E l \in Logins, k \in {"qr", "phone"}, v \in {"cli", "mcp"} :
              Login(l, k, v)

Dialling(l) == OpenQR(l) \/ Dial(l) \/ PairPhone(l)
Routine(l)  == \/ QRTake(l) \/ QREnd(l) \/ SendCode(l) \/ PhoneWait(l)
               \/ SendTerm(l) \/ Clear(l) \/ Close(l)
Handler(l)  == Forward(l) \/ StreamEnds(l) \/ ToolReturns(l)
Cli(l)      == CliRead(l) \/ CliStreamClosed(l)
WhatsApp(l) == ShowCode(l) \/ CodesRunOut(l) \/ QRCancelled(l)
Account     == PairSuccess \/ PairError \/ LogIn \/ Drop \/ Unlinked

-----------------------------------------------------------------------------
(* Correctness.                                                            *)

Places == {"idle", "open", "dial", "pair", "range", "sendCode", "wait",
           "sendTerm", "clear", "close", "done"}

SessionTypeOK ==
  /\ linked \in BOOLEAN /\ conn \in {"down", "up", "in"}
  /\ linkCode \in BOOLEAN /\ qrOpen \subseteq Logins
  /\ qrCh \in [Logins -> Seq(Items)] /\ codes \in [Logins -> Nat]
  /\ paired \subseteq Logins
  /\ loginInProgress \in BOOLEAN /\ muHeld \in BOOLEAN
  /\ pairCh \in Logins \cup {NoLogin}
  /\ kind \in [Logins -> {"qr", "phone"}] /\ via \in [Logins -> {"cli", "mcp"}]
  /\ pc \in [Logins -> Places] /\ item \in [Logins -> Items]
  /\ pair \in [Logins -> Seq(Outcomes)] /\ sent \in [Logins -> Seq(Items)]
  /\ taken \in [Logins -> Nat] /\ seen \in [Logins -> Nat]
  /\ live \in [Logins -> BOOLEAN] /\ reading \subseteq Logins
  /\ cli \in [Logins -> {"waiting", "logged in", "failed", "gone", "refused"}]
  /\ drops \in Nat /\ logouts \in Nat

\* "LoginQR and LoginPhone are mutually exclusive": the flag is set exactly
\* while one login is between its checks and its deferred functions, however
\* it fails, is cancelled or is left alone by its client.
OneLogin ==
  /\ loginInProgress <=> \E l \in Logins : Holds(l)
  /\ \A l, m \in Logins : Holds(l) /\ Holds(m) => l = m

\* While a phone login waits for its outcome, a PairSuccess reaches it and
\* no other: the deferred functions of an earlier login never take the
\* channel of a later one away.
PairingReachesItsLogin ==
  /\ \A l \in Logins : pc[l] = "wait" /\ pair[l] = <<>> => pairCh = l
  /\ pairCh # NoLogin => Holds(pairCh) /\ kind[pairCh] = "phone"

\* The CLI says "logged in" only when the account was linked during its own
\* login, through the channels, the handler and the frames in between.
CliTellsTheTruth == \A l \in Logins : cli[l] = "logged in" => l \in paired

\* Logins implement the abstract pairing: one at a time, codes and then at
\* most one outcome, success only for the login that linked the account.
P == INSTANCE Pairing WITH
       holder <- IF loginInProgress THEN CHOOSE l \in Logins : Holds(l)
                                    ELSE NoLogin,
       shown <- sent,
       over <- {l \in Logins : pc[l] \in {"close", "done"}},
       linkedIn <- paired

ImplementsPairing == P!PairingSpec
=============================================================================
