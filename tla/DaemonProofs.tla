---------------------------- MODULE DaemonProofs ----------------------------
(* Theorems about Daemon, and about Session within it, and their proofs.   *)
EXTENDS Daemon, SequenceTheorems, TLAPS

-----------------------------------------------------------------------------
(* The steps of the daemon.                                                *)

\* The steps of one login: of its goroutine, its handler, its CLI and its
\* QR channel.
LoginStep(l) ==
  \/ OpenQR(l) \/ Dial(l) \/ PairPhone(l)
  \/ QRTake(l) \/ QREnd(l) \/ SendCode(l) \/ PhoneWait(l)
  \/ SendTerm(l) \/ Clear(l) \/ Close(l)
  \/ Forward(l) \/ StreamEnds(l) \/ ToolReturns(l) \/ HangUp(l)
  \/ CliRead(l) \/ CliStreamClosed(l)
  \/ ShowCode(l) \/ CodesRunOut(l) \/ QRCancelled(l)

\* The steps of the account and its connection.
AccountStep ==
  \/ PairSuccess \/ PairError \/ LogIn \/ Drop \/ Unlinked
  \/ Logout \/ LogoutEnds
  \/ phase \in {"listen", "serving", "shutdown", "closeApp"} /\ Reconnect

\* The steps that leave the session alone.
OutsideStep ==
  /\ UNCHANGED sessionVars
  /\ \/ OpenSession \/ OpenAppStore \/ Listen \/ Terminate
     \/ Drained \/ TimedOut \/ CloseApp
     \/ StreamLeft \/ Deliver \/ UNCHANGED vars
     \/ /\ phase = "serving"
        /\ \E c \in Clients : streaming' = streaming \cup {c}
        /\ UNCHANGED <<serveVars, handed, lost>>

\* Every step is one of these.
LEMMA Steps ==
  ASSUME [Next]_vars
  PROVE  \/ OutsideStep
         \/ Resume \/ CloseWA \/ Exit
         \/ UNCHANGED daemonVars /\ AccountStep
         \/ /\ UNCHANGED daemonVars /\ phase = "serving"
            /\ \E l \in Logins, k \in {"qr", "phone"}, v \in {"cli", "mcp"} : Login(l, k, v)
         \/ UNCHANGED daemonVars /\ \E l \in Logins : LoginStep(l)
  <1>1. CASE Serve
    BY <1>1 DEF Serve, OutsideStep, OpenSession, OpenAppStore, Listen, Terminate,
                Drained, TimedOut, CloseApp
  <1>2. CASE TakeRequest
    BY <1>2 DEF TakeRequest, NewLogin, AccountStep, OutsideStep
  <1>3. CASE StreamLeft \/ Deliver \/ UNCHANGED vars
    BY <1>3 DEF OutsideStep, StreamLeft, Deliver, vars
  <1>4. CASE ClientLeaves
    BY <1>4 DEF ClientLeaves, LoginStep
  <1>5. CASE StayConnected
    BY <1>5 DEF StayConnected, AccountStep
  <1>6. CASE Work
    BY <1>6 DEF Work, Dialling, Routine, Handler, WhatsApp, Account, LoginStep,
                AccountStep
  <1>7. CASE Client
    BY <1>7 DEF Client, Cli, LoginStep
  <1> QED BY <1>1, <1>2, <1>3, <1>4, <1>5, <1>6, <1>7 DEF Next

-----------------------------------------------------------------------------
(* What a step does to the flag, the pairing channel and the places.       *)

\* Nothing.
Still == UNCHANGED <<pc, loginInProgress, pairCh, kind, pair>>

\* A login claims the flag.
Begins(l, k) ==
  /\ phase = "serving" /\ UNCHANGED daemonVars
  /\ pc[l] = "idle" /\ pc' = [pc EXCEPT ![l] = "open"]
  /\ ~loginInProgress /\ loginInProgress' = TRUE
  /\ pairCh' = IF k = "phone" THEN l ELSE pairCh
  /\ kind' = [kind EXCEPT ![l] = k]
  /\ UNCHANGED pair

\* A login is turned away.
Refused(l, k) ==
  /\ pc[l] = "idle" /\ pc' = [pc EXCEPT ![l] = "done"]
  /\ kind' = [kind EXCEPT ![l] = k]
  /\ UNCHANGED <<loginInProgress, pairCh, pair>>

\* A login goes on with the flag, or closes its channel without it.
Moves(l, from, to) ==
  /\ pc[l] = from /\ pc' = [pc EXCEPT ![l] = to]
  /\ UNCHANGED <<loginInProgress, pairCh, kind, pair>>

Onward(l) ==
  \/ kind[l] = "qr" /\ Moves(l, "open", "dial")
  \/ kind[l] = "qr" /\ Moves(l, "dial", "range")
  \/ kind[l] = "phone" /\ Moves(l, "open", "pair")
  \/ Moves(l, "pair", "wait") \/ Moves(l, "wait", "sendTerm")
  \/ Moves(l, "range", "sendCode") \/ Moves(l, "range", "sendTerm")
  \/ Moves(l, "range", "clear") \/ Moves(l, "sendCode", "range")
  \/ Moves(l, "sendCode", "sendTerm") \/ Moves(l, "sendTerm", "clear")
  \/ Moves(l, "close", "done")

\* A login gives the flag up, because it failed or by its deferred functions.
Frees(l) ==
  /\ Holds(l)
  /\ \/ pc[l] = "clear" /\ pc' = [pc EXCEPT ![l] = "close"]
     \/ pc' = [pc EXCEPT ![l] = "done"]
  /\ loginInProgress' = FALSE
  /\ pairCh' = IF kind[l] = "phone" THEN NoLogin ELSE pairCh
  /\ UNCHANGED <<kind, pair>>

\* whatsmeow tells an outcome to whoever has a channel.
Signals ==
  /\ UNCHANGED <<pc, loginInProgress, kind>>
  /\ \E o \in {"success", "error"} : SignalPair(o)

\* The process is gone.
Dies ==
  /\ pc' = [l \in Logins |-> IF pc[l] = "idle" THEN "idle" ELSE "done"]
  /\ loginInProgress' = FALSE /\ pairCh' = NoLogin
  /\ UNCHANGED <<kind, pair>>

\* Every step is one of these.
LEMMA LoginEffects ==
  ASSUME kind \in [Logins -> {"qr", "phone"}], [Next]_vars
  PROVE  \/ Still \/ Signals \/ Dies
         \/ \E l \in Logins : \/ Onward(l) \/ Frees(l)
                              \/ \E k \in {"qr", "phone"} : Begins(l, k) \/ Refused(l, k)
  <1> DEFINE Goal ==
         \/ Still \/ Signals \/ Dies
         \/ \E l \in Logins : \/ Onward(l) \/ Frees(l)
                              \/ \E k \in {"qr", "phone"} : Begins(l, k) \/ Refused(l, k)
  <1> SUFFICES Goal
    OBVIOUS
  <1>1. CASE OutsideStep \/ Resume \/ CloseWA
    <2>1. Still
      BY <1>1 DEF OutsideStep, Resume, CloseWA, sessionVars, routine, adapter, request,
                  Still
    <2> QED BY <2>1
  <1>2. CASE Exit
    <2>1. Dies
      BY <1>2 DEF Exit, Dies, request
    <2> QED BY <2>1
  <1>3. CASE AccountStep
    <2>1. CASE PairSuccess \/ PairError
      <3>1. Signals
        BY <2>1 DEF PairSuccess, PairError, Signals, SignalPair, request
      <3> QED BY <3>1
    <2>2. CASE LogIn \/ Drop \/ Unlinked \/ Logout \/ LogoutEnds \/ Reconnect
      <3>1. Still
        BY <2>2 DEF LogIn, Drop, Unlinked, Logout, LogoutEnds, Reconnect, Still, adapter,
                    routine, request
      <3> QED BY <3>1
    <2> QED BY <1>3, <2>1, <2>2 DEF AccountStep
  <1>4. ASSUME NEW l \in Logins, NEW k \in {"qr", "phone"}, NEW v \in {"cli", "mcp"},
               Login(l, k, v), phase = "serving", UNCHANGED daemonVars
        PROVE  Goal
    <2>1. Begins(l, k) \/ Refused(l, k)
      BY <1>4 DEF Login, Refuse, Begins, Refused, Goto, adapter, routine
    <2> QED BY <2>1
  <1>5. ASSUME NEW l \in Logins, NEW from, GiveUp(l, from), from # "idle", Holds(l),
               UNCHANGED request
        PROVE  Frees(l)
    BY <1>5 DEF GiveUp, Release, Refuse, Goto, Frees, request
  <1>6. ASSUME NEW l \in Logins, OpenQR(l) PROVE Onward(l) \/ Frees(l)
    <2>1. CASE GiveUp(l, "open")
      BY <1>5, <1>6, <2>1 DEF OpenQR, Holds
    <2>2. CASE ~GiveUp(l, "open")
      BY <1>6, <2>2 DEF OpenQR, Onward, Moves, Goto, adapter, request
    <2> QED BY <2>1, <2>2
  <1>7. ASSUME NEW l \in Logins, Dial(l) PROVE Onward(l) \/ Frees(l)
    <2>1. CASE GiveUp(l, pc[l])
      BY <1>5, <1>7, <2>1 DEF Dial, Holds
    <2>2. CASE kind[l] = "qr" /\ ~GiveUp(l, pc[l])
      BY <1>7, <2>2 DEF Dial, Onward, Moves, adapter, request
    <2>3. CASE kind[l] = "phone" /\ ~GiveUp(l, pc[l])
      BY <1>7, <2>3 DEF Dial, Onward, Moves, adapter, request
    <2> QED BY <2>1, <2>2, <2>3
  <1>8. ASSUME NEW l \in Logins, PairPhone(l) PROVE Onward(l) \/ Frees(l)
    <2>1. CASE GiveUp(l, "pair")
      BY <1>5, <1>8, <2>1 DEF PairPhone, Holds
    <2>2. CASE ~GiveUp(l, "pair")
      BY <1>8, <2>2 DEF PairPhone, Onward, Moves, Goto, adapter, request
    <2> QED BY <2>1, <2>2
  <1>9. ASSUME NEW l \in Logins,
               \/ QRTake(l) \/ QREnd(l) \/ SendCode(l) \/ PhoneWait(l) \/ SendTerm(l)
               \/ Close(l)
        PROVE  Onward(l)
    BY <1>9 DEF QRTake, QREnd, SendCode, PhoneWait, SendTerm, Close, Onward, Moves, Goto,
                adapter, request
  <1>10. ASSUME NEW l \in Logins, Clear(l) PROVE Frees(l)
    BY <1>10 DEF Clear, Release, Frees, Holds, Goto, request
  <1>11. ASSUME NEW l \in Logins,
                \/ Forward(l) \/ StreamEnds(l) \/ ToolReturns(l) \/ HangUp(l)
                \/ CliRead(l) \/ CliStreamClosed(l)
                \/ ShowCode(l) \/ CodesRunOut(l) \/ QRCancelled(l)
         PROVE  Still
    BY <1>11 DEF Forward, StreamEnds, ToolReturns, HangUp, CliRead, CliStreamClosed,
                 ShowCode, CodesRunOut, QRCancelled, routine, adapter, request, Still
  <1>12. ASSUME NEW l \in Logins, LoginStep(l) PROVE Still \/ Onward(l) \/ Frees(l)
    BY <1>6, <1>7, <1>8, <1>9, <1>10, <1>11, <1>12 DEF LoginStep
  <1>13. ASSUME NEW l \in Logins, LoginStep(l) PROVE Goal
    BY <1>12, <1>13
  <1> HIDE DEF Goal
  <1> QED BY <1>1, <1>2, <1>3, <1>4, <1>13, Steps

-----------------------------------------------------------------------------
(* One login at a time.                                                    *)

TypeLogins ==
  /\ pc \in [Logins -> Places] /\ kind \in [Logins -> {"qr", "phone"}]
  /\ loginInProgress \in BOOLEAN /\ pairCh \in Logins \cup {NoLogin}
  /\ pair \in [Logins -> Seq(Outcomes)]

\* The kind of a login decides which places it reaches.
KindsFit ==
  \A l \in Logins :
    /\ pc[l] \in {"dial", "range", "sendCode"} => kind[l] = "qr"
    /\ pc[l] \in {"pair", "wait"} => kind[l] = "phone"

\* A phone login has the pairing channel from its checks on, until an
\* outcome is in it; who has the channel is a phone login that holds the flag.
ChannelKept ==
  /\ \A l \in Logins :
       /\ pc[l] = "idle" => pair[l] = <<>>
       /\ kind[l] = "phone" /\ pc[l] \in {"open", "pair", "wait"} /\ pair[l] = <<>>
            => pairCh = l
  /\ pairCh # NoLogin => Holds(pairCh) /\ kind[pairCh] = "phone"

LoginInv == TypeLogins /\ OneLogin /\ KindsFit /\ ChannelKept

\* The outcomes a phone login may be told.
LEMMA SignalPairEffect ==
  ASSUME TypeLogins, NEW o \in Outcomes, SignalPair(o)
  PROVE  /\ pairCh' = NoLogin
         /\ pair' \in [Logins -> Seq(Outcomes)]
         /\ \A l \in Logins : pair'[l] = IF l = pairCh /\ pair[l] = <<>>
                                           THEN <<o>> ELSE pair[l]
  BY DEF SignalPair, TypeLogins

\* Every step keeps the type.
LEMMA TypeLoginsStep ==
  ASSUME TypeLogins, [Next]_vars
  PROVE  TypeLogins'
  <1> USE DEF TypeLogins, Places
  <1>1. CASE Still
    BY <1>1 DEF Still
  <1>2. CASE Signals
    <2>1. PICK o \in {"success", "error"} : SignalPair(o)
      BY <1>2 DEF Signals
    <2>2. o \in Outcomes
      BY DEF Outcomes
    <2>3. pairCh' = NoLogin /\ pair' \in [Logins -> Seq(Outcomes)]
      BY <2>1, <2>2, SignalPairEffect
    <2> QED BY <1>2, <2>3 DEF Signals
  <1>3. CASE Dies
    BY <1>3 DEF Dies
  <1>4. ASSUME NEW l \in Logins, Onward(l) PROVE TypeLogins'
    BY <1>4 DEF Onward, Moves
  <1>5. ASSUME NEW l \in Logins, Frees(l) PROVE TypeLogins'
    BY <1>5 DEF Frees
  <1>6. ASSUME NEW l \in Logins, NEW k \in {"qr", "phone"}, Begins(l, k)
        PROVE  TypeLogins'
    BY <1>6 DEF Begins
  <1>7. ASSUME NEW l \in Logins, NEW k \in {"qr", "phone"}, Refused(l, k)
        PROVE  TypeLogins'
    BY <1>7 DEF Refused
  <1> QED BY <1>1, <1>2, <1>3, <1>4, <1>5, <1>6, <1>7, LoginEffects

\* Who holds the flag after a step.
LEMMA HoldsStep ==
  ASSUME TypeLogins, OneLogin, [Next]_vars
  PROVE  OneLogin'
  <1> USE DEF TypeLogins, OneLogin
  <1>1. CASE Still
    BY <1>1 DEF Still, Holds
  <1>2. CASE Signals
    BY <1>2 DEF Signals, Holds
  <1>3. CASE Dies
    BY <1>3 DEF Dies, Holds
  <1>4. ASSUME NEW l \in Logins, Onward(l) PROVE OneLogin'
    <2>1. \A m \in Logins : Holds(m)' <=> Holds(m)
      BY <1>4 DEF Onward, Moves, Holds
    <2>2. loginInProgress' = loginInProgress
      BY <1>4 DEF Onward, Moves
    <2> QED BY <2>1, <2>2 DEF Holds
  <1>5. ASSUME NEW l \in Logins, Frees(l) PROVE OneLogin'
    <2>1. \A m \in Logins : Holds(m)' => Holds(m) /\ m # l
      BY <1>5 DEF Frees, Holds
    <2>2. \A m \in Logins : ~Holds(m)'
      BY <1>5, <2>1 DEF Frees
    <2> QED BY <1>5, <2>2 DEF Frees
  <1>6. ASSUME NEW l \in Logins, NEW k, Begins(l, k) PROVE OneLogin'
    <2>1. \A m \in Logins : Holds(m)' <=> m = l
      BY <1>6 DEF Begins, Holds
    <2> QED BY <1>6, <2>1 DEF Begins
  <1>7. ASSUME NEW l \in Logins, NEW k, Refused(l, k) PROVE OneLogin'
    <2>1. \A m \in Logins : Holds(m)' <=> Holds(m)
      BY <1>7 DEF Refused, Holds
    <2> QED BY <1>7, <2>1 DEF Refused
  <1> QED BY <1>1, <1>2, <1>3, <1>4, <1>5, <1>6, <1>7, LoginEffects

\* Kinds are chosen before the places that need them.
LEMMA KindsStep ==
  ASSUME TypeLogins, KindsFit, [Next]_vars
  PROVE  KindsFit'
  <1> USE DEF TypeLogins, KindsFit
  <1>1. CASE Still \/ Signals
    BY <1>1 DEF Still, Signals
  <1>2. CASE Dies
    BY <1>2 DEF Dies
  <1>3. ASSUME NEW l \in Logins, Onward(l) PROVE KindsFit'
    BY <1>3 DEF Onward, Moves
  <1>4. ASSUME NEW l \in Logins, Frees(l) PROVE KindsFit'
    BY <1>4 DEF Frees
  <1>5. ASSUME NEW l \in Logins, NEW k, Begins(l, k) \/ Refused(l, k) PROVE KindsFit'
    BY <1>5 DEF Begins, Refused
  <1> QED BY <1>1, <1>2, <1>3, <1>4, <1>5, LoginEffects

\* The channel is not taken away from a phone login that waits: only the
\* one login with the flag can give up a channel, and a QR login has none.
LEMMA ChannelStep ==
  ASSUME TypeLogins, OneLogin, KindsFit, ChannelKept, [Next]_vars
  PROVE  ChannelKept'
  <1> USE DEF TypeLogins, ChannelKept
  <1>0. NoLogin \notin Logins
    BY SessionAssumption
  <1>1. CASE Still
    BY <1>1 DEF Still, Holds
  <1>2. CASE Signals
    <2>1. PICK o \in {"success", "error"} : SignalPair(o)
      BY <1>2 DEF Signals
    <2>2. o \in Outcomes
      BY DEF Outcomes
    <2>3. /\ pairCh' = NoLogin
          /\ \A l \in Logins : pair'[l] = IF l = pairCh /\ pair[l] = <<>>
                                            THEN <<o>> ELSE pair[l]
      BY <2>1, <2>2, SignalPairEffect
    <2>4. \A l \in Logins : pc'[l] = "idle" => pair'[l] = <<>>
      BY <1>0, <1>2, <2>3 DEF Signals, Holds
    <2>5. <<o>> # <<>>
      OBVIOUS
    <2>6. ASSUME NEW l \in Logins, kind[l] = "phone", pc[l] \in {"open", "pair", "wait"}
          PROVE  pair'[l] # <<>>
      BY <2>3, <2>5, <2>6
    <2> QED BY <1>2, <2>3, <2>4, <2>6 DEF Signals
  <1>3. CASE Dies
    BY <1>3 DEF Dies
  <1>4. ASSUME NEW l \in Logins, Onward(l) PROVE ChannelKept'
    <2>1. \A m \in Logins : Holds(m)' <=> Holds(m)
      BY <1>4 DEF Onward, Moves, Holds
    <2>2. UNCHANGED <<pairCh, kind, pair>>
      BY <1>4 DEF Onward, Moves
    <2>3. \A m \in Logins : pc'[m] = "idle" => pc[m] = "idle"
      BY <1>4 DEF Onward, Moves
    <2>4. \A m \in Logins : pc'[m] \in {"open", "pair", "wait"} /\ kind[m] = "phone"
                              => pc[m] \in {"open", "pair", "wait"}
      BY <1>4 DEF Onward, Moves
    <2>5. pairCh' # NoLogin => Holds(pairCh)' /\ kind'[pairCh'] = "phone"
      <3>1. PICK c : c = pairCh
        OBVIOUS
      <3>2. c # NoLogin => Holds(c)' /\ kind[c] = "phone"
        BY <2>1, <3>1
      <3> QED BY <2>2, <3>1, <3>2 DEF Holds
    <2> QED BY <2>2, <2>3, <2>4, <2>5
  <1>5. ASSUME NEW l \in Logins, Frees(l) PROVE ChannelKept'
    <2>1. \A m \in Logins : Holds(m) => m = l
      BY <1>5 DEF Frees, OneLogin
    <2>2. pairCh' = NoLogin
      BY <1>0, <1>5, <2>1 DEF Frees
    <2>3. \A m \in Logins : pc'[m] \notin {"open", "pair", "wait"}
      BY <1>5, <2>1 DEF Frees, Holds
    <2>4. \A m \in Logins : pc'[m] = "idle" => pc[m] = "idle"
      BY <1>5 DEF Frees
    <2> QED BY <1>5, <2>2, <2>3, <2>4 DEF Frees
  <1>6. ASSUME NEW l \in Logins, NEW k \in {"qr", "phone"}, Begins(l, k)
        PROVE  ChannelKept'
    <2>1. \A m \in Logins : ~Holds(m)
      BY <1>6 DEF Begins, OneLogin
    <2>2. pairCh = NoLogin
      BY <1>0, <2>1
    <2>3. \A m \in Logins : m # l => pc'[m] \notin {"open", "pair", "wait"}
      BY <1>6, <2>1 DEF Begins, Holds
    <2>4. \A m \in Logins : pc'[m] = "idle" => pc[m] = "idle"
      BY <1>6 DEF Begins
    <2>5. pc'[l] = "open" /\ kind'[l] = k
      BY <1>6 DEF Begins
    <2> QED BY <1>0, <1>6, <2>2, <2>3, <2>4, <2>5 DEF Begins, Holds
  <1>7. ASSUME NEW l \in Logins, NEW k, Refused(l, k) PROVE ChannelKept'
    <2>1. \A m \in Logins : Holds(m)' <=> Holds(m)
      BY <1>7 DEF Refused, Holds
    <2>2. ~Holds(l)
      BY <1>7 DEF Refused, Holds
    <2>3. pairCh # NoLogin => Holds(pairCh)' /\ kind'[pairCh] = "phone"
      BY <1>0, <1>7, <2>1, <2>2 DEF Refused
    <2> QED BY <1>7, <2>3 DEF Refused, Holds
  <1> QED BY <1>1, <1>2, <1>3, <1>4, <1>5, <1>6, <1>7, LoginEffects

\* In the beginning nobody has anything.
LEMMA LoginInit == Init => LoginInv
  <1> SUFFICES ASSUME Init PROVE LoginInv
    OBVIOUS
  <1>1. /\ \A l \in Logins : pc[l] = "idle" /\ pair[l] = <<>>
        /\ loginInProgress = FALSE /\ pairCh = NoLogin
    BY DEF Init, SessionInit
  <1>2. TypeLogins
    <2>1. /\ pc = [l \in Logins |-> "idle"] /\ kind = [l \in Logins |-> "qr"]
          /\ pair = [l \in Logins |-> <<>>]
      BY DEF Init, SessionInit
    <2>2. <<>> \in Seq(Outcomes)
      OBVIOUS
    <2> QED BY <1>1, <2>1, <2>2 DEF TypeLogins, Places
  <1>3. OneLogin /\ KindsFit
    BY <1>1 DEF OneLogin, KindsFit, Holds
  <1>4. ChannelKept
    BY <1>1 DEF ChannelKept
  <1> QED BY <1>2, <1>3, <1>4 DEF LoginInv

\* The invariant of the logins holds throughout.
LEMMA LoginSafe == Spec => []LoginInv
  <1>1. LoginInv /\ [Next]_vars => LoginInv'
    BY TypeLoginsStep, HoldsStep, KindsStep, ChannelStep DEF LoginInv
  <1> QED BY LoginInit, <1>1, PTL DEF Spec

\* The flag is set exactly while one login is between its checks and its
\* deferred functions, for any number of requests of either kind, however
\* they fail, are cancelled or cut off, and across restarts.
THEOREM DaemonOneLogin == Spec => []OneLogin
  <1>1. LoginInv => OneLogin
    BY DEF LoginInv
  <1> QED BY LoginSafe, <1>1, PTL

\* An outcome reaches the phone login that waits for it and no other: the
\* deferred functions of an earlier login never take the channel of a later.
THEOREM DaemonPairingReachesItsLogin == Spec => []PairingReachesItsLogin
  <1>1. LoginInv => PairingReachesItsLogin
    BY DEF LoginInv, ChannelKept, KindsFit, PairingReachesItsLogin
  <1> QED BY LoginSafe, <1>1, PTL

-----------------------------------------------------------------------------
(* What a step does to the events on their way to the CLI.                 *)

events == <<qrCh, item, sent, taken, pair, paired>>

\* The steps that move an event, each with what it leaves alone.
EventStep ==
  \/ \E l \in Logins :
       \/ PairPhone(l) /\ UNCHANGED <<qrCh, item, taken, pair, paired>>
       \/ QRTake(l) /\ UNCHANGED <<sent, taken, pair, paired>>
       \/ SendCode(l) /\ UNCHANGED <<qrCh, taken, pair, paired>>
       \/ PhoneWait(l) /\ UNCHANGED <<qrCh, sent, taken, pair, paired>>
       \/ SendTerm(l) /\ UNCHANGED <<qrCh, item, taken, pair, paired>>
       \/ (Forward(l) \/ ToolReturns(l)) /\ UNCHANGED <<qrCh, item, sent, pair, paired>>
       \/ (ShowCode(l) \/ CodesRunOut(l)) /\ UNCHANGED <<item, sent, taken, pair, paired>>
  \/ Drop /\ UNCHANGED <<item, sent, taken, pair, paired>>
  \/ (PairSuccess \/ PairError) /\ UNCHANGED <<item, sent, taken>>

\* Any other step leaves the events alone, and brings nobody to where the
\* last one is sent.
LEMMA EventEffects ==
  ASSUME TypeLogins, [Next]_vars
  PROVE  \/ EventStep
         \/ /\ UNCHANGED events
            /\ \A l \in Logins : pc'[l] = "sendTerm" => pc[l] = "sendTerm"
  <1> DEFINE Calm == /\ UNCHANGED events
                     /\ \A l \in Logins : pc'[l] = "sendTerm" => pc[l] = "sendTerm"
  <1>1. ASSUME UNCHANGED <<events, pc>> PROVE Calm
    BY <1>1
  <1>2. ASSUME UNCHANGED events, NEW l \in Logins, NEW to, to # "sendTerm",
               pc' = [pc EXCEPT ![l] = to]
        PROVE  Calm
    BY <1>2 DEF TypeLogins
  <1> HIDE DEF Calm
  <1>3. CASE OutsideStep \/ Resume \/ CloseWA
    <2>1. UNCHANGED <<events, pc>>
      BY <1>3 DEF OutsideStep, Resume, CloseWA, sessionVars, routine, handler, events
    <2> QED BY <1>1, <2>1 DEF Calm
  <1>4. CASE Exit
    <2>1. UNCHANGED events
      BY <1>4 DEF Exit, events
    <2>2. \A l \in Logins : pc'[l] # "sendTerm"
      BY <1>4 DEF Exit
    <2> QED BY <2>1, <2>2
  <1>5. CASE AccountStep
    <2>1. CASE PairSuccess \/ PairError
      BY <2>1 DEF PairSuccess, PairError, EventStep, handler, routine
    <2>2. CASE Drop
      BY <2>2 DEF Drop, EventStep, handler, routine
    <2>3. CASE LogIn \/ Unlinked \/ Logout \/ LogoutEnds \/ Reconnect
      <3>1. UNCHANGED <<events, pc>>
        BY <2>3 DEF LogIn, Unlinked, Logout, LogoutEnds, Reconnect, handler, routine,
                    whatsmeow, events
      <3> QED BY <1>1, <3>1 DEF Calm
    <2> QED BY <1>5, <2>1, <2>2, <2>3 DEF AccountStep
  <1>6. ASSUME NEW l \in Logins, NEW k \in {"qr", "phone"}, NEW v \in {"cli", "mcp"},
               Login(l, k, v)
        PROVE  Calm
    <2>1. UNCHANGED events
      BY <1>6 DEF Login, Refuse, whatsmeow, events
    <2>2. pc' = [pc EXCEPT ![l] = "open"] \/ pc' = [pc EXCEPT ![l] = "done"]
      BY <1>6 DEF Login, Refuse, Goto
    <2> QED BY <1>2, <2>1, <2>2
  <1>7. ASSUME NEW l \in Logins, LoginStep(l) PROVE EventStep \/ Calm
    <2>1. CASE OpenQR(l) \/ Dial(l)
      <3>1. UNCHANGED events
        BY <2>1 DEF OpenQR, Dial, GiveUp, Refuse, handler, events
      <3>2. \E to : to # "sendTerm" /\ pc' = [pc EXCEPT ![l] = to]
        <4>1. \/ pc' = [pc EXCEPT ![l] = "dial"] \/ pc' = [pc EXCEPT ![l] = "done"]
              \/ pc' = [pc EXCEPT ![l] = "range"] \/ pc' = [pc EXCEPT ![l] = "pair"]
          BY <2>1 DEF OpenQR, Dial, GiveUp, Refuse, Goto
        <4> QED BY <4>1
      <3> QED BY <1>2, <3>1, <3>2
    <2>2. CASE QREnd(l) \/ Clear(l) \/ Close(l)
      <3>1. UNCHANGED events
        BY <2>2 DEF QREnd, Clear, Close, whatsmeow, handler, events
      <3>2. \E to : to # "sendTerm" /\ pc' = [pc EXCEPT ![l] = to]
        <4>1. \/ pc' = [pc EXCEPT ![l] = "clear"] \/ pc' = [pc EXCEPT ![l] = "close"]
              \/ pc' = [pc EXCEPT ![l] = "done"]
          BY <2>2 DEF QREnd, Clear, Close, Goto
        <4> QED BY <4>1
      <3> QED BY <1>2, <3>1, <3>2
    <2>3. CASE PairPhone(l) \/ QRTake(l) \/ SendCode(l) \/ PhoneWait(l) \/ SendTerm(l)
      <3>1. PairPhone(l) => UNCHANGED <<qrCh, item, taken, pair, paired>>
        BY DEF PairPhone, GiveUp, Refuse, handler
      <3>2. QRTake(l) => UNCHANGED <<sent, taken, pair, paired>>
        BY DEF QRTake, handler
      <3>3. SendCode(l) => UNCHANGED <<qrCh, taken, pair, paired>>
        BY DEF SendCode, handler, whatsmeow
      <3>4. PhoneWait(l) => UNCHANGED <<qrCh, sent, taken, pair, paired>>
        BY DEF PhoneWait, handler, whatsmeow
      <3>5. SendTerm(l) => UNCHANGED <<qrCh, item, taken, pair, paired>>
        BY DEF SendTerm, handler, whatsmeow
      <3> QED BY <2>3, <3>1, <3>2, <3>3, <3>4, <3>5 DEF EventStep
    <2>4. CASE Forward(l) \/ ToolReturns(l)
      <3>1. UNCHANGED <<qrCh, item, sent, pair, paired>>
        BY <2>4 DEF Forward, ToolReturns, whatsmeow, routine
      <3> QED BY <2>4, <3>1 DEF EventStep
    <2>5. CASE ShowCode(l) \/ CodesRunOut(l)
      <3>1. UNCHANGED <<item, sent, taken, pair, paired>>
        BY <2>5 DEF ShowCode, CodesRunOut, handler, routine
      <3> QED BY <2>5, <3>1 DEF EventStep
    <2>6. CASE StreamEnds(l) \/ HangUp(l) \/ CliRead(l) \/ CliStreamClosed(l)
               \/ QRCancelled(l)
      <3>1. UNCHANGED <<events, pc>>
        BY <2>6 DEF StreamEnds, HangUp, CliRead, CliStreamClosed, QRCancelled, whatsmeow,
                    routine, handler, events
      <3> QED BY <1>1, <3>1
    <2> QED BY <1>7, <2>1, <2>2, <2>3, <2>4, <2>5, <2>6 DEF LoginStep
  <1> QED BY <1>1, <1>3, <1>4, <1>5, <1>6, <1>7, Steps DEF Calm

-----------------------------------------------------------------------------
(* The type of the events, of what whatsmeow keeps, and of the rest.       *)

TypeEvents ==
  /\ qrCh \in [Logins -> Seq(Items)] /\ item \in [Logins -> Items]
  /\ sent \in [Logins -> Seq(Items)] /\ taken \in [Logins -> Nat]
  /\ paired \subseteq Logins

TypeRest ==
  /\ linked \in BOOLEAN /\ conn \in {"down", "up", "in"} /\ linkCode \in BOOLEAN
  /\ qrOpen \subseteq Logins /\ codes \in [Logins -> Nat] /\ muHeld \in BOOLEAN
  /\ drops \in Nat /\ logouts \in Nat

TypeCalls ==
  /\ via \in [Logins -> {"cli", "mcp"}]
  /\ live \in [Logins -> BOOLEAN] /\ reading \subseteq Logins
  /\ seen \in [Logins -> Nat]
  /\ cli \in [Logins -> {"waiting", "logged in", "failed", "gone", "refused"}]

TypeDaemon ==
  /\ phase \in Phases /\ appStore \in {"closed", "open"}
  /\ streaming \subseteq Clients /\ graceful \in BOOLEAN
  /\ handed \in Nat /\ lost \subseteq Phases /\ runs \in Nat

\* The parts of the type invariant.
LEMMA TypeParts ==
  TypeOK <=> TypeLogins /\ TypeEvents /\ TypeRest /\ TypeCalls /\ TypeDaemon
  BY DEF TypeOK, SessionTypeOK, TypeLogins, TypeEvents, TypeRest, TypeCalls, TypeDaemon

\* What CloseQR appends is an item.
LEMMA CloseQREffect ==
  ASSUME qrCh \in [Logins -> Seq(Items)], NEW ls, NEW i \in Items, CloseQR(ls, i)
  PROVE  /\ qrCh' \in [Logins -> Seq(Items)] /\ qrOpen' = qrOpen \ ls
         /\ \A l \in Logins : qrCh'[l] = IF l \in ls THEN Append(qrCh[l], i) ELSE qrCh[l]
  BY DEF CloseQR

\* A QR channel holds items, and is filled by whatsmeow with codes and a
\* last item, which is success only when the account is linked.
LEMMA QrChStep ==
  ASSUME TypeLogins, TypeEvents, TypeRest, [Next]_vars
  PROVE  /\ qrCh' \in [Logins -> Seq(Items)]
         /\ \A l \in Logins :
              \/ qrCh'[l] = qrCh[l]
              \/ pc[l] = "range" /\ qrCh[l] # <<>> /\ qrCh'[l] = Tail(qrCh[l])
              \/ /\ l \in qrOpen
                 /\ \E i \in Items : /\ qrCh'[l] = Append(qrCh[l], i)
                                     /\ i = "success" => PairSuccess
  <1> DEFINE Goal ==
         /\ qrCh' \in [Logins -> Seq(Items)]
         /\ \A l \in Logins :
              \/ qrCh'[l] = qrCh[l]
              \/ pc[l] = "range" /\ qrCh[l] # <<>> /\ qrCh'[l] = Tail(qrCh[l])
              \/ /\ l \in qrOpen
                 /\ \E i \in Items : /\ qrCh'[l] = Append(qrCh[l], i)
                                     /\ i = "success" => PairSuccess
  <1> USE DEF TypeEvents
  <1>0. \A i \in {"code", "success", "error", "timeout"} : i \in Items
    BY DEF Items, Outcomes
  <1>1. ASSUME UNCHANGED qrCh PROVE Goal
    BY <1>1
  <1>2. ASSUME NEW l \in Logins, QRTake(l) PROVE Goal
    <2>1. pc[l] = "range" /\ qrCh[l] # <<>> /\ qrCh' = [qrCh EXCEPT ![l] = Tail(@)]
      BY <1>2 DEF QRTake, Goto
    <2> QED BY <2>1
  <1>3. ASSUME NEW l \in Logins, ShowCode(l) PROVE Goal
    <2>1. l \in qrOpen /\ qrCh' = [qrCh EXCEPT ![l] = Append(@, "code")]
      BY <1>3 DEF ShowCode
    <2>2. qrCh'[l] = Append(qrCh[l], "code") /\ \A m \in Logins \ {l} : qrCh'[m] = qrCh[m]
      BY <2>1
    <2>3. qrCh' \in [Logins -> Seq(Items)]
      BY <1>0, <2>1
    <2>4. "code" \in Items /\ "code" # "success"
      BY <1>0
    <2> QED BY <2>1, <2>2, <2>3, <2>4
  <1>4. ASSUME NEW ls, ls \subseteq qrOpen, NEW i \in Items, CloseQR(ls, i),
               i = "success" => PairSuccess
        PROVE  Goal
    <2>1. /\ qrCh' \in [Logins -> Seq(Items)]
          /\ \A l \in Logins : qrCh'[l] = IF l \in ls THEN Append(qrCh[l], i) ELSE qrCh[l]
      BY <1>4, CloseQREffect
    <2>2. ASSUME NEW l \in Logins, l \in ls
          PROVE  l \in qrOpen /\ qrCh'[l] = Append(qrCh[l], i) /\ (i = "success" => PairSuccess)
      BY <1>4, <2>1, <2>2
    <2>3. ASSUME NEW l \in Logins, l \notin ls PROVE qrCh'[l] = qrCh[l]
      BY <2>1, <2>3
    <2> QED BY <2>1, <2>2, <2>3
  <1>5. ASSUME PairSuccess \/ PairError \/ Drop \/ \E l \in Logins : CodesRunOut(l)
        PROVE  Goal
    <2>1. \E i \in {"success", "error", "timeout"} :
            (\E ls : ls \subseteq qrOpen /\ CloseQR(ls, i)) /\ (i = "success" => PairSuccess)
      <3>1. PairSuccess => CloseQR(qrOpen, "success")
        BY DEF PairSuccess
      <3>2. PairError => CloseQR(qrOpen, "error")
        BY DEF PairError
      <3>3. Drop => CloseQR({l \in qrOpen : Started(l)}, "timeout")
        BY DEF Drop
      <3>4. {l \in qrOpen : Started(l)} \subseteq qrOpen
        OBVIOUS
      <3>5. ASSUME NEW l \in Logins, CodesRunOut(l)
            PROVE  {l} \subseteq qrOpen /\ CloseQR({l}, "timeout")
        BY <3>5 DEF CodesRunOut
      <3> QED BY <1>5, <3>1, <3>2, <3>3, <3>4, <3>5, Zenon
    <2> QED BY <1>0, <1>4, <2>1
  <1> HIDE DEF Goal
  <1>6. EventStep => UNCHANGED qrCh \/ PairSuccess \/ PairError \/ Drop
                     \/ \E l \in Logins : QRTake(l) \/ ShowCode(l) \/ CodesRunOut(l)
    BY Zenon DEF EventStep
  <1>7. UNCHANGED events => UNCHANGED qrCh
    BY DEF events
  <1>8. ASSUME EventStep PROVE Goal
    <2>1. CASE UNCHANGED qrCh
      BY <1>1, <2>1
    <2>2. CASE PairSuccess \/ PairError \/ Drop \/ \E l \in Logins : CodesRunOut(l)
      BY <1>5, <2>2
    <2>3. ASSUME NEW l \in Logins, QRTake(l) \/ ShowCode(l) PROVE Goal
      BY <1>2, <1>3, <2>3
    <2> QED BY <1>6, <1>8, <2>1, <2>2, <2>3
  <1>9. UNCHANGED events => Goal
    BY <1>1, <1>7
  <1>10. EventStep \/ UNCHANGED events
    BY EventEffects
  <1>11. Goal
    BY <1>8, <1>9, <1>10
  <1> QED BY <1>11 DEF Goal

\* The channel of a login gets codes, and then what its goroutine has in
\* hand; its handler takes one event at a time.
LEMMA SentStep ==
  ASSUME TypeLogins, TypeEvents, [Next]_vars
  PROVE  /\ sent' \in [Logins -> Seq(Items)] /\ taken' \in [Logins -> Nat]
         /\ \A l \in Logins :
              \/ sent'[l] = sent[l] /\ taken'[l] = taken[l]
              \/ sent'[l] = sent[l] /\ taken[l] < Len(sent[l]) /\ taken'[l] = taken[l] + 1
              \/ /\ taken'[l] = taken[l]
                 /\ \/ pc[l] = "pair" /\ pc'[l] = "wait" /\ sent'[l] = <<"code">>
                    \/ /\ pc[l] = "sendCode" /\ pc'[l] = "range"
                       /\ sent'[l] = Append(sent[l], "code")
                    \/ /\ pc[l] = "sendTerm" /\ pc'[l] = "clear"
                       /\ sent'[l] = Append(sent[l], item[l])
  <1> DEFINE Goal ==
         /\ sent' \in [Logins -> Seq(Items)] /\ taken' \in [Logins -> Nat]
         /\ \A l \in Logins :
              \/ sent'[l] = sent[l] /\ taken'[l] = taken[l]
              \/ sent'[l] = sent[l] /\ taken[l] < Len(sent[l]) /\ taken'[l] = taken[l] + 1
              \/ /\ taken'[l] = taken[l]
                 /\ \/ pc[l] = "pair" /\ pc'[l] = "wait" /\ sent'[l] = <<"code">>
                    \/ /\ pc[l] = "sendCode" /\ pc'[l] = "range"
                       /\ sent'[l] = Append(sent[l], "code")
                    \/ /\ pc[l] = "sendTerm" /\ pc'[l] = "clear"
                       /\ sent'[l] = Append(sent[l], item[l])
  <1> SUFFICES Goal
    OBVIOUS
  <1> USE DEF TypeEvents
  <1>0. "code" \in Items
    BY DEF Items
  <1>1. ASSUME UNCHANGED <<sent, taken>> PROVE Goal
    BY <1>1
  <1>2. ASSUME NEW l \in Logins, UNCHANGED taken, NEW from, NEW to,
               Goto(l, from, to), NEW q \in Seq(Items), sent' = [sent EXCEPT ![l] = q],
               \/ from = "pair" /\ to = "wait" /\ q = <<"code">>
               \/ from = "sendCode" /\ to = "range" /\ q = Append(sent[l], "code")
               \/ from = "sendTerm" /\ to = "clear" /\ q = Append(sent[l], item[l])
        PROVE Goal
    <2>1. pc[l] = from /\ pc'[l] = to
      BY <1>2 DEF Goto, TypeLogins
    <2>2. sent'[l] = q /\ \A m \in Logins \ {l} : sent'[m] = sent[m]
      BY <1>2
    <2>3. sent' \in [Logins -> Seq(Items)]
      BY <1>2
    <2> QED BY <1>2, <2>1, <2>2, <2>3
  <1>3. ASSUME NEW l \in Logins, PairPhone(l), UNCHANGED taken PROVE Goal
    <2>1. <<"code">> \in Seq(Items)
      BY <1>0
    <2>2. \/ Goto(l, "pair", "wait") /\ sent' = [sent EXCEPT ![l] = <<"code">>]
          \/ UNCHANGED sent
      BY <1>3 DEF PairPhone, GiveUp, Refuse
    <2> QED BY <1>1, <1>2, <1>3, <2>1, <2>2
  <1>4. ASSUME NEW l \in Logins, SendCode(l), UNCHANGED taken PROVE Goal
    <2>1. Append(sent[l], "code") \in Seq(Items)
      BY <1>0
    <2>2. \/ Goto(l, "sendCode", "range") /\ sent' = [sent EXCEPT ![l] = Append(@, "code")]
          \/ UNCHANGED sent
      BY <1>4 DEF SendCode
    <2> QED BY <1>1, <1>2, <1>4, <2>1, <2>2
  <1>5. ASSUME NEW l \in Logins, SendTerm(l), UNCHANGED taken PROVE Goal
    <2>1. Append(sent[l], item[l]) \in Seq(Items)
      OBVIOUS
    <2>2. Goto(l, "sendTerm", "clear") /\ sent' = [sent EXCEPT ![l] = Append(@, item[l])]
      BY <1>5 DEF SendTerm
    <2> QED BY <1>2, <1>5, <2>1, <2>2
  <1>6. ASSUME NEW l \in Logins, Forward(l) \/ ToolReturns(l), UNCHANGED sent PROVE Goal
    <2>1. \/ taken[l] < Len(sent[l]) /\ taken' = [taken EXCEPT ![l] = @ + 1]
          \/ UNCHANGED taken
      BY <1>6 DEF Forward, ToolReturns
    <2>2. CASE taken[l] < Len(sent[l]) /\ taken' = [taken EXCEPT ![l] = @ + 1]
      <3>1. taken' \in [Logins -> Nat]
        BY <2>2
      <3>2. taken'[l] = taken[l] + 1 /\ \A m \in Logins \ {l} : taken'[m] = taken[m]
        BY <2>2
      <3> QED BY <1>6, <2>2, <3>1, <3>2
    <2> QED BY <1>1, <1>6, <2>1, <2>2
  <1> HIDE DEF Goal
  <1>7. ASSUME EventStep PROVE Goal
    <2>1. \/ UNCHANGED <<sent, taken>>
          \/ \E l \in Logins :
               \/ UNCHANGED taken /\ (PairPhone(l) \/ SendCode(l) \/ SendTerm(l))
               \/ UNCHANGED sent /\ (Forward(l) \/ ToolReturns(l))
      BY <1>7 DEF EventStep
    <2> QED BY <1>1, <1>3, <1>4, <1>5, <1>6, <2>1
  <1>8. UNCHANGED events => Goal
    BY <1>1 DEF events
  <1> QED BY <1>7, <1>8, EventEffects

\* What is in hand when it is sent last came from whatsmeow or is the end
\* of the wait, and is no code.
LEMMA ItemStep ==
  ASSUME TypeLogins, TypeEvents, [Next]_vars
  PROVE  /\ item' \in [Logins -> Items]
         /\ \A l \in Logins : pc'[l] = "sendTerm" =>
              \/ pc[l] = "sendTerm" /\ item'[l] = item[l]
              \/ /\ pc[l] = "range" /\ qrCh[l] # <<>>
                 /\ item'[l] = Head(qrCh[l]) /\ item'[l] # "code"
              \/ pc[l] = "wait" /\ pair[l] # <<>> /\ item'[l] = Head(pair[l])
              \/ item'[l] \in {"cancelled", "timeout"}
  <1> DEFINE Goal ==
         /\ item' \in [Logins -> Items]
         /\ \A l \in Logins : pc'[l] = "sendTerm" =>
              \/ pc[l] = "sendTerm" /\ item'[l] = item[l]
              \/ /\ pc[l] = "range" /\ qrCh[l] # <<>>
                 /\ item'[l] = Head(qrCh[l]) /\ item'[l] # "code"
              \/ pc[l] = "wait" /\ pair[l] # <<>> /\ item'[l] = Head(pair[l])
              \/ item'[l] \in {"cancelled", "timeout"}
  <1> SUFFICES Goal
    OBVIOUS
  <1> USE DEF TypeEvents, TypeLogins
  <1>0. Outcomes \subseteq Items /\ {"cancelled", "timeout"} \subseteq Items
    BY DEF Items, Outcomes
  <1>1. ASSUME UNCHANGED item, \A l \in Logins : pc'[l] = "sendTerm" => pc[l] = "sendTerm"
        PROVE  Goal
    BY <1>1
  <1>2. ASSUME NEW l \in Logins, UNCHANGED item, NEW from, NEW to, Goto(l, from, to),
               to # "sendTerm"
        PROVE  Goal
    BY <1>1, <1>2 DEF Goto
  <1>3. ASSUME NEW l \in Logins, QRTake(l) PROVE Goal
    <2>1. /\ pc[l] = "range" /\ qrCh[l] # <<>>
          /\ item' = [item EXCEPT ![l] = Head(qrCh[l])]
          /\ pc' = [pc EXCEPT ![l] = IF Head(qrCh[l]) = "code" THEN "sendCode" ELSE "sendTerm"]
      BY <1>3 DEF QRTake, Goto
    <2>2. Head(qrCh[l]) \in Items
      BY <2>1
    <2>3. \A m \in Logins \ {l} : pc'[m] = pc[m] /\ item'[m] = item[m]
      BY <2>1
    <2>4. item'[l] = Head(qrCh[l]) /\ (pc'[l] = "sendTerm" => item'[l] # "code")
      BY <2>1
    <2>5. item' \in [Logins -> Items]
      BY <2>1, <2>2
    <2> QED BY <2>1, <2>3, <2>4, <2>5
  <1>4. ASSUME NEW l \in Logins, NEW from, Goto(l, from, "sendTerm"),
               NEW i \in Items, item' = [item EXCEPT ![l] = i],
               \/ from = "wait" /\ pair[l] # <<>> /\ i = Head(pair[l])
               \/ i \in {"cancelled", "timeout"}
        PROVE  Goal
    <2>1. pc[l] = from /\ pc' = [pc EXCEPT ![l] = "sendTerm"]
      BY <1>4 DEF Goto
    <2>2. \A m \in Logins \ {l} : pc'[m] = pc[m] /\ item'[m] = item[m]
      BY <1>4, <2>1
    <2>3. item'[l] = i /\ item' \in [Logins -> Items]
      BY <1>4
    <2> QED BY <1>4, <2>1, <2>2, <2>3
  <1>5. ASSUME NEW l \in Logins, PhoneWait(l) PROVE Goal
    <2>1. /\ Goto(l, "wait", "sendTerm")
          /\ \/ pair[l] # <<>> /\ item' = [item EXCEPT ![l] = Head(pair[l])]
             \/ item' = [item EXCEPT ![l] = "cancelled"]
             \/ item' = [item EXCEPT ![l] = "timeout"]
      BY <1>5 DEF PhoneWait
    <2>2. pair[l] # <<>> => Head(pair[l]) \in Items
      BY <1>0
    <2>3. "cancelled" \in Items /\ "timeout" \in Items
      BY <1>0
    <2> QED BY <1>4, <2>1, <2>2, <2>3
  <1>6. ASSUME NEW l \in Logins, SendCode(l) PROVE Goal
    <2>1. \/ UNCHANGED item /\ Goto(l, "sendCode", "range")
          \/ Goto(l, "sendCode", "sendTerm") /\ item' = [item EXCEPT ![l] = "cancelled"]
      BY <1>6 DEF SendCode
    <2>2. "cancelled" \in Items
      BY <1>0
    <2> QED BY <1>2, <1>4, <2>1, <2>2
  <1>7. ASSUME NEW l \in Logins, PairPhone(l), UNCHANGED item PROVE Goal
    <2>1. Goto(l, "pair", "wait") \/ Goto(l, "pair", "done")
      BY <1>7 DEF PairPhone, GiveUp, Refuse
    <2> QED BY <1>2, <1>7, <2>1
  <1>8. ASSUME NEW l \in Logins, SendTerm(l), UNCHANGED item PROVE Goal
    <2>1. Goto(l, "sendTerm", "clear")
      BY <1>8 DEF SendTerm
    <2> QED BY <1>2, <1>8, <2>1
  <1>9. ASSUME UNCHANGED item,
               \/ Drop \/ PairSuccess \/ PairError
               \/ \E l \in Logins : Forward(l) \/ ToolReturns(l) \/ ShowCode(l) \/ CodesRunOut(l)
        PROVE  Goal
    <2>1. UNCHANGED pc
      BY <1>9 DEF Drop, PairSuccess, PairError, Forward, ToolReturns, ShowCode, CodesRunOut,
                  routine
    <2> QED BY <1>1, <1>9, <2>1
  <1> HIDE DEF Goal
  <1>10. ASSUME EventStep PROVE Goal
    <2>1. CASE \E l \in Logins : QRTake(l) \/ SendCode(l) \/ PhoneWait(l)
      BY <1>3, <1>5, <1>6, <2>1
    <2>2. CASE \E l \in Logins : (PairPhone(l) \/ SendTerm(l)) /\ UNCHANGED item
      BY <1>7, <1>8, <2>2
    <2>3. CASE /\ UNCHANGED item
               /\ \/ Drop \/ PairSuccess \/ PairError
                  \/ \E l \in Logins : Forward(l) \/ ToolReturns(l) \/ ShowCode(l)
                                       \/ CodesRunOut(l)
      BY <1>9, <2>3
    <2> QED BY <1>10, <2>1, <2>2, <2>3 DEF EventStep
  <1>11. ASSUME UNCHANGED events, \A l \in Logins : pc'[l] = "sendTerm" => pc[l] = "sendTerm"
         PROVE  Goal
    BY <1>1, <1>11 DEF events
  <1> QED BY <1>10, <1>11, EventEffects

\* Only PairSuccess links the account, for whoever holds the flag, and only
\* then is success put into a pairing channel.
LEMMA PairedStep ==
  ASSUME LoginInv, TypeEvents, [Next]_vars
  PROVE  /\ paired \subseteq paired' /\ paired' \subseteq Logins
         /\ PairSuccess => paired' = paired \cup {l \in Logins : Holds(l)}
         /\ ~PairSuccess => paired' = paired
         /\ \A l \in Logins : \/ pair'[l] = pair[l]
                              \/ pair'[l] = <<"error">>
                              \/ PairSuccess /\ Holds(l) /\ pair'[l] = <<"success">>
  <1> USE DEF TypeEvents
  <1>1. PairSuccess => paired' = paired \cup {l \in Logins : Holds(l)}
    BY DEF PairSuccess
  <1>2. ~PairSuccess => paired' = paired
    <2>1. PairError => UNCHANGED paired
      BY DEF PairError
    <2>2. EventStep => UNCHANGED paired \/ PairSuccess \/ PairError
      BY Zenon DEF EventStep
    <2>3. EventStep \/ UNCHANGED paired
      BY EventEffects DEF events, LoginInv
    <2> QED BY <2>1, <2>2, <2>3
  <1>3. ASSUME NEW l \in Logins
        PROVE  \/ pair'[l] = pair[l]
               \/ pair'[l] = <<"error">>
               \/ PairSuccess /\ Holds(l) /\ pair'[l] = <<"success">>
    <2>1. ASSUME NEW o \in Outcomes, SignalPair(o)
          PROVE  pair'[l] = pair[l] \/ (Holds(l) /\ pair'[l] = <<o>>)
      <3>1. pair'[l] = IF l = pairCh /\ pair[l] = <<>> THEN <<o>> ELSE pair[l]
        BY <2>1, SignalPairEffect DEF LoginInv
      <3>2. l = pairCh => Holds(l)
        BY SessionAssumption DEF LoginInv, ChannelKept
      <3> QED BY <3>1, <3>2
    <2>2. "success" \in Outcomes /\ "error" \in Outcomes
      BY DEF Outcomes
    <2>3. CASE PairSuccess
      <3>1. SignalPair("success")
        BY <2>3 DEF PairSuccess
      <3> QED BY <2>1, <2>2, <2>3, <3>1
    <2>4. CASE PairError
      <3>1. SignalPair("error")
        BY <2>4 DEF PairError
      <3> QED BY <2>1, <2>2, <3>1
    <2>5. EventStep => UNCHANGED pair \/ PairSuccess \/ PairError
      BY Zenon DEF EventStep
    <2>6. EventStep \/ UNCHANGED pair
      BY EventEffects DEF events, LoginInv
    <2> QED BY <2>3, <2>4, <2>5, <2>6
  <1> QED BY <1>1, <1>2, <1>3

\* QR channels are opened by their login only, and closed by whatsmeow.
LEMMA WhoOpens ==
  ASSUME [Next]_vars, NEW m \in qrOpen'
  PROVE  m \in qrOpen \/ (m \in Logins /\ pc[m] = "open" /\ OpenQR(m))
  <1> DEFINE Goal == m \in qrOpen \/ (m \in Logins /\ pc[m] = "open" /\ OpenQR(m))
  <1> SUFFICES Goal
    OBVIOUS
  <1>1. CASE OutsideStep \/ Resume \/ CloseWA \/ Exit
    BY <1>1 DEF OutsideStep, Resume, CloseWA, Exit, sessionVars
  <1>2. CASE AccountStep
    BY <1>2 DEF AccountStep, PairSuccess, PairError, LogIn, Drop, Unlinked, Logout,
                LogoutEnds, Reconnect, whatsmeow, CloseQR
  <1>3. ASSUME NEW l \in Logins, NEW k, NEW v, Login(l, k, v) PROVE Goal
    BY <1>3 DEF Login, whatsmeow
  <1>4. ASSUME NEW l \in Logins, LoginStep(l) PROVE Goal
    <2>1. CASE OpenQR(l)
      BY <2>1 DEF OpenQR
    <2>2. CASE Dial(l) \/ PairPhone(l) \/ QRTake(l) \/ QREnd(l) \/ SendCode(l)
               \/ PhoneWait(l) \/ SendTerm(l) \/ Clear(l) \/ Close(l)
      BY <2>2 DEF Dial, PairPhone, QRTake, QREnd, SendCode, PhoneWait, SendTerm, Clear,
                  Close, whatsmeow
    <2>3. CASE Forward(l) \/ StreamEnds(l) \/ ToolReturns(l) \/ HangUp(l)
               \/ CliRead(l) \/ CliStreamClosed(l)
      BY <2>3 DEF Forward, StreamEnds, ToolReturns, HangUp, CliRead, CliStreamClosed,
                  whatsmeow
    <2>4. CASE ShowCode(l) \/ CodesRunOut(l) \/ QRCancelled(l)
      BY <2>4 DEF ShowCode, CodesRunOut, QRCancelled, CloseQR
    <2> QED BY <1>4, <2>1, <2>2, <2>3, <2>4 DEF LoginStep
  <1> HIDE DEF Goal
  <1> QED BY <1>1, <1>2, <1>3, <1>4, Steps

\* The type of what whatsmeow keeps.
LEMMA TypeRestStep ==
  ASSUME TypeRest, [Next]_vars
  PROVE  TypeRest'
  <1>0. qrOpen' \subseteq Logins
    BY WhoOpens DEF TypeRest
  <1> DEFINE Goal == /\ linked' \in BOOLEAN /\ conn' \in {"down", "up", "in"}
                     /\ linkCode' \in BOOLEAN /\ codes' \in [Logins -> Nat]
                     /\ muHeld' \in BOOLEAN /\ drops' \in Nat /\ logouts' \in Nat
  <1>a. /\ linked \in BOOLEAN /\ conn \in {"down", "up", "in"} /\ linkCode \in BOOLEAN
        /\ codes \in [Logins -> Nat] /\ muHeld \in BOOLEAN
        /\ drops \in Nat /\ logouts \in Nat
    BY DEF TypeRest
  <1>1. ASSUME OutsideStep \/ Resume \/ CloseWA \/ Exit PROVE Goal
    BY <1>a, <1>1 DEF OutsideStep, Resume, CloseWA, Exit, sessionVars, adapter, limits
  <1>2. ASSUME AccountStep PROVE Goal
    <2>1. CASE PairSuccess \/ PairError
      <3>1. /\ linked' \in {TRUE, linked} /\ linkCode' = FALSE
            /\ UNCHANGED <<conn, codes, drops, logouts>>
        BY <2>1 DEF PairSuccess, PairError, limits
      <3>2. UNCHANGED muHeld
        BY <2>1 DEF PairSuccess, PairError, SignalPair
      <3> QED BY <1>a, <3>1, <3>2
    <2>2. CASE Drop
      <3>1. conn' = "down" /\ linkCode' = FALSE
        BY <2>2 DEF Drop
      <3>2. UNCHANGED <<linked, codes, muHeld, logouts>>
        BY <2>2 DEF Drop, adapter
      <3>3. drops' \in Nat
        <4>1. drops' = drops + 1
          BY <2>2 DEF Drop
        <4> QED BY <1>a, <4>1
      <3> QED BY <1>a, <3>1, <3>2, <3>3
    <2>3. CASE LogIn \/ Reconnect
      <3>1. conn' \in {"up", "in"} /\ UNCHANGED <<linked, linkCode, codes>>
        BY <2>3 DEF LogIn, Reconnect
      <3>2. UNCHANGED <<muHeld, drops, logouts>>
        BY <2>3 DEF LogIn, Reconnect, adapter, limits
      <3> QED BY <1>a, <3>1, <3>2
    <2>5. CASE Unlinked
      <3>1. linked' = FALSE /\ conn' = "down"
        BY <2>5 DEF Unlinked
      <3>2. UNCHANGED <<linkCode, codes, muHeld, drops>>
        BY <2>5 DEF Unlinked, adapter
      <3>3. logouts' \in Nat
        <4>1. logouts' = logouts + 1
          BY <2>5 DEF Unlinked
        <4> QED BY <1>a, <4>1
      <3> QED BY <1>a, <3>1, <3>2, <3>3
    <2>4. CASE Logout
      <3>1. muHeld' = TRUE /\ UNCHANGED <<linked, conn, linkCode, codes, drops>>
        BY <2>4 DEF Logout, whatsmeow
      <3>2. logouts' \in Nat
        <4>1. logouts' = logouts + 1
          BY <2>4 DEF Logout
        <4> QED BY <1>a, <4>1
      <3> QED BY <1>a, <3>1, <3>2
    <2>6. CASE LogoutEnds
      BY <1>a, <2>6 DEF LogoutEnds, limits
    <2> QED BY <1>2, <2>1, <2>2, <2>3, <2>4, <2>5, <2>6 DEF AccountStep
  <1>3. ASSUME NEW l \in Logins, NEW k, NEW v, Login(l, k, v) PROVE Goal
    BY <1>a, <1>3 DEF Login, whatsmeow, adapter, limits
  <1>4. ASSUME NEW l \in Logins, LoginStep(l) PROVE Goal
    <2>1. CASE OpenQR(l) \/ Dial(l)
      BY <1>a, <2>1 DEF OpenQR, Dial, GiveUp, Release, adapter, limits
    <2>2. CASE PairPhone(l)
      BY <1>a, <2>2 DEF PairPhone, GiveUp, Release, adapter, limits
    <2>3. CASE QRTake(l) \/ QREnd(l) \/ SendCode(l)
               \/ PhoneWait(l) \/ SendTerm(l) \/ Clear(l) \/ Close(l)
      BY <1>a, <2>3 DEF QRTake, QREnd, SendCode, PhoneWait, SendTerm, Clear, Release,
                  Close, whatsmeow, adapter, limits
    <2>4. CASE Forward(l) \/ StreamEnds(l) \/ ToolReturns(l) \/ HangUp(l)
               \/ CliRead(l) \/ CliStreamClosed(l)
      BY <1>a, <2>4 DEF Forward, StreamEnds, ToolReturns, HangUp, CliRead, CliStreamClosed,
                  whatsmeow, adapter, limits
    <2>5. CASE ShowCode(l) \/ CodesRunOut(l) \/ QRCancelled(l)
      <3>1. codes' \in [Logins -> Nat]
        BY <1>a, <2>5 DEF ShowCode, CodesRunOut, QRCancelled
      <3>2. /\ conn' \in {conn, "down"} /\ linkCode' \in {linkCode, FALSE}
            /\ UNCHANGED <<linked, muHeld, drops, logouts>>
        BY <2>5 DEF ShowCode, CodesRunOut, QRCancelled, adapter, limits
      <3> QED BY <1>a, <3>1, <3>2
    <2> QED BY <1>4, <2>1, <2>2, <2>3, <2>4, <2>5 DEF LoginStep
  <1>5. Goal => TypeRest'
    BY <1>0 DEF TypeRest
  <1> HIDE DEF Goal
  <1> QED BY <1>1, <1>2, <1>3, <1>4, <1>5, Steps

\* What a CLI reads is a frame its handler took from the channel; only
\* success makes it say so.
LEMMA CliStep ==
  ASSUME TypeCalls, [Next]_vars
  PROVE  /\ seen' \in [Logins -> Nat]
         /\ cli' \in [Logins -> {"waiting", "logged in", "failed", "gone", "refused"}]
         /\ \A l \in Logins : cli'[l] = "logged in" =>
              cli[l] = "logged in" \/ (seen[l] < taken[l] /\ sent[l][seen[l] + 1] = "success")
  <1> DEFINE Goal ==
         /\ seen' \in [Logins -> Nat]
         /\ cli' \in [Logins -> {"waiting", "logged in", "failed", "gone", "refused"}]
         /\ \A l \in Logins : cli'[l] = "logged in" =>
              cli[l] = "logged in" \/ (seen[l] < taken[l] /\ sent[l][seen[l] + 1] = "success")
  <1> SUFFICES Goal
    OBVIOUS
  <1>a. /\ seen \in [Logins -> Nat]
        /\ cli \in [Logins -> {"waiting", "logged in", "failed", "gone", "refused"}]
    BY DEF TypeCalls
  <1>1. ASSUME UNCHANGED client PROVE Goal
    BY <1>a, <1>1 DEF client
  <1>2. ASSUME UNCHANGED seen, NEW l \in Logins,
               \E x \in {"refused", "gone", "failed"} : cli' = [cli EXCEPT ![l] = x]
        PROVE  Goal
    BY <1>a, <1>2
  <1>3. ASSUME NEW l \in Logins, NEW k, NEW v, Login(l, k, v) PROVE Goal
    <2>1. UNCHANGED client \/ (UNCHANGED seen /\ cli' = [cli EXCEPT ![l] = "refused"])
      BY <1>3 DEF Login, Refuse
    <2> QED BY <1>1, <1>2, <2>1
  <1>4. ASSUME NEW l \in Logins, OpenQR(l) \/ Dial(l) \/ PairPhone(l) PROVE Goal
    <2>1. UNCHANGED client \/ (UNCHANGED seen /\ cli' = [cli EXCEPT ![l] = "refused"])
      BY <1>4 DEF OpenQR, Dial, PairPhone, GiveUp, Refuse
    <2> QED BY <1>1, <1>2, <2>1
  <1>5. ASSUME NEW l \in Logins, HangUp(l) \/ CliStreamClosed(l) PROVE Goal
    <2>1. UNCHANGED seen /\ \E x \in {"gone", "failed"} : cli' = [cli EXCEPT ![l] = x]
      BY <1>5 DEF HangUp, CliStreamClosed
    <2> QED BY <1>2, <2>1
  <1>b. ASSUME NEW l \in Logins, seen' = [seen EXCEPT ![l] = seen[l] + 1]
        PROVE  seen' \in [Logins -> Nat]
    <2>1. seen \in [Logins -> Nat]
      BY <1>a
    <2> QED BY <1>b, <2>1
  <1>6. ASSUME NEW l \in Logins, CliRead(l) PROVE Goal
    <2>1. PICK x \in {"waiting", "logged in", "failed"} :
            /\ cli' = [cli EXCEPT ![l] = x]
            /\ x = "logged in" => sent[l][seen[l] + 1] = "success"
      <3> DEFINE e == sent[l][seen[l] + 1]
                 x == CASE e = "code" -> "waiting" [] e = "success" -> "logged in"
                        [] OTHER -> "failed"
      <3>1. cli' = [cli EXCEPT ![l] = x]
        BY <1>6 DEF CliRead
      <3>2. x \in {"waiting", "logged in", "failed"} /\ (x = "logged in" => e = "success")
        OBVIOUS
      <3> HIDE DEF x
      <3> QED BY <3>1, <3>2
    <2>2. seen[l] < taken[l]
      BY <1>6 DEF CliRead
    <2>3. seen' \in [Logins -> Nat]
      BY <1>6, <1>b DEF CliRead
    <2>4. \A m \in Logins \ {l} : cli'[m] = cli[m]
      BY <1>a, <2>1
    <2>5. cli' \in [Logins -> {"waiting", "logged in", "failed", "gone", "refused"}]
      BY <1>a, <2>1
    <2> QED BY <1>a, <2>1, <2>2, <2>3, <2>4, <2>5
  <1> HIDE DEF Goal
  <1>7. CASE OutsideStep \/ Resume \/ CloseWA \/ Exit
    <2>1. UNCHANGED client
      BY <1>7 DEF OutsideStep, Resume, CloseWA, Exit, sessionVars, client
    <2> QED BY <1>1, <2>1
  <1>8. CASE AccountStep
    <2>1. UNCHANGED client
      BY <1>8 DEF AccountStep, PairSuccess, PairError, LogIn, Drop, Unlinked, Logout,
                  LogoutEnds, Reconnect
    <2> QED BY <1>1, <2>1
  <1>9. ASSUME NEW l \in Logins, LoginStep(l) PROVE Goal
    <2>1. CASE QRTake(l) \/ QREnd(l) \/ SendCode(l) \/ PhoneWait(l) \/ SendTerm(l)
               \/ Clear(l) \/ Close(l) \/ Forward(l) \/ StreamEnds(l) \/ ToolReturns(l)
               \/ ShowCode(l) \/ CodesRunOut(l) \/ QRCancelled(l)
      <3>1. UNCHANGED client
        BY <2>1 DEF QRTake, QREnd, SendCode, PhoneWait, SendTerm, Clear, Close, Forward,
                    StreamEnds, ToolReturns, ShowCode, CodesRunOut, QRCancelled
      <3> QED BY <1>1, <3>1
    <2> QED BY <1>4, <1>5, <1>6, <1>9, <2>1 DEF LoginStep
  <1> QED BY <1>3, <1>7, <1>8, <1>9, Steps

\* A handler begins with the login it serves, which only a server that is
\* serving takes; its request ends with it, with its client or with the
\* process.
LEMMA HandlersStep ==
  ASSUME [Next]_vars
  PROVE  /\ \/ UNCHANGED via
            \/ \E l \in Logins, v \in {"cli", "mcp"} : via' = [via EXCEPT ![l] = v]
         /\ \/ UNCHANGED live
            \/ live' = [l \in Logins |-> live[l] /\ pc[l] = "idle"]
            \/ \E l \in Logins : live' = [live EXCEPT ![l] = FALSE]
         /\ \/ reading' \subseteq reading
            \/ /\ phase = "serving" /\ UNCHANGED daemonVars
               /\ \E l \in Logins : reading' = reading \cup {l}
  <1> DEFINE V == \/ UNCHANGED via
                  \/ \E l \in Logins, v \in {"cli", "mcp"} : via' = [via EXCEPT ![l] = v]
             L == \/ UNCHANGED live
                  \/ live' = [l \in Logins |-> live[l] /\ pc[l] = "idle"]
                  \/ \E l \in Logins : live' = [live EXCEPT ![l] = FALSE]
             R == \/ reading' \subseteq reading
                  \/ /\ phase = "serving" /\ UNCHANGED daemonVars
                     /\ \E l \in Logins : reading' = reading \cup {l}
             Goal == V /\ L /\ R
  <1> SUFFICES Goal
    OBVIOUS
  <1>1. ASSUME UNCHANGED <<via, live, reading>> PROVE Goal
    BY <1>1
  <1>2. ASSUME NEW l \in Logins, Leave(l), UNCHANGED via PROVE Goal
    BY <1>2 DEF Leave
  <1>3. CASE OutsideStep \/ Resume \/ CloseWA
    <2>1. UNCHANGED <<via, live, reading>>
      BY <1>3 DEF OutsideStep, Resume, CloseWA, sessionVars, request, handler
    <2> QED BY <1>1, <2>1
  <1>4. CASE Exit
    <2>1. /\ UNCHANGED via /\ reading' = {}
          /\ live' = [l \in Logins |-> live[l] /\ pc[l] = "idle"]
      BY <1>4 DEF Exit, request
    <2> QED BY <2>1
  <1>5. CASE AccountStep
    <2>1. UNCHANGED <<via, live, reading>>
      BY <1>5 DEF AccountStep, PairSuccess, PairError, LogIn, Drop, Unlinked, Logout,
                  LogoutEnds, Reconnect, request, handler
    <2> QED BY <1>1, <2>1
  <1>6. ASSUME NEW l \in Logins, NEW k, NEW v \in {"cli", "mcp"}, Login(l, k, v),
               phase = "serving", UNCHANGED daemonVars
        PROVE  Goal
    <2>1. V
      BY <1>6 DEF Login
    <2>2. CASE Leave(l)
      BY <1>6, <2>1, <2>2 DEF Leave
    <2>3. CASE reading' = reading \cup {l} /\ UNCHANGED live
      BY <1>6, <2>1, <2>3
    <2> QED BY <1>6, <2>2, <2>3 DEF Login, Refuse
  <1>7. ASSUME NEW l \in Logins, LoginStep(l) PROVE Goal
    <2>1. CASE OpenQR(l) \/ Dial(l) \/ PairPhone(l)
      <3>1. UNCHANGED via /\ (UNCHANGED <<live, reading>> \/ Leave(l))
        BY <2>1 DEF OpenQR, Dial, PairPhone, GiveUp, Refuse, request, handler
      <3> QED BY <1>1, <1>2, <3>1
    <2>2. CASE QRTake(l) \/ QREnd(l) \/ SendCode(l) \/ PhoneWait(l) \/ SendTerm(l)
               \/ Clear(l) \/ Close(l) \/ CliRead(l) \/ CliStreamClosed(l)
               \/ ShowCode(l) \/ CodesRunOut(l) \/ QRCancelled(l)
      <3>1. UNCHANGED <<via, live, reading>>
        BY <2>2 DEF QRTake, QREnd, SendCode, PhoneWait, SendTerm, Clear, Close, CliRead,
                    CliStreamClosed, ShowCode, CodesRunOut, QRCancelled, request, handler
      <3> QED BY <1>1, <3>1
    <2>3. CASE Forward(l) \/ StreamEnds(l) \/ ToolReturns(l)
      <3>1. UNCHANGED via /\ (UNCHANGED <<live, reading>> \/ Leave(l))
        BY <2>3 DEF Forward, StreamEnds, ToolReturns, request
      <3> QED BY <1>1, <1>2, <3>1
    <2>4. CASE HangUp(l)
      <3>1. UNCHANGED <<via, reading>> /\ live' = [live EXCEPT ![l] = FALSE]
        BY <2>4 DEF HangUp, request
      <3> QED BY <3>1
    <2> QED BY <1>7, <2>1, <2>2, <2>3, <2>4 DEF LoginStep
  <1> HIDE DEF Goal
  <1> QED BY <1>3, <1>4, <1>5, <1>6, <1>7, Steps

\* The type of the calls.
LEMMA TypeCallsStep ==
  ASSUME TypeCalls, [Next]_vars
  PROVE  TypeCalls'
  <1>1. via' \in [Logins -> {"cli", "mcp"}]
    <2>1. via \in [Logins -> {"cli", "mcp"}]
      BY DEF TypeCalls
    <2> QED BY <2>1, HandlersStep
  <1>2. live' \in [Logins -> BOOLEAN]
    <2>1. live \in [Logins -> BOOLEAN]
      BY DEF TypeCalls
    <2>2. CASE live' = [l \in Logins |-> live[l] /\ pc[l] = "idle"]
      BY <2>1, <2>2
    <2>3. ASSUME NEW l \in Logins, live' = [live EXCEPT ![l] = FALSE]
          PROVE  live' \in [Logins -> BOOLEAN]
      BY <2>1, <2>3
    <2> QED BY <2>1, <2>2, <2>3, HandlersStep
  <1>3. reading' \subseteq Logins
    <2>1. reading \subseteq Logins
      BY DEF TypeCalls
    <2> QED BY <2>1, HandlersStep
  <1> QED BY <1>1, <1>2, <1>3, CliStep DEF TypeCalls

\* The type of the events.
LEMMA TypeEventsStep ==
  ASSUME LoginInv, TypeEvents, TypeRest, [Next]_vars
  PROVE  TypeEvents'
  <1>1. TypeLogins
    BY DEF LoginInv
  <1>2. qrCh' \in [Logins -> Seq(Items)]
    BY <1>1, QrChStep
  <1>3. sent' \in [Logins -> Seq(Items)] /\ taken' \in [Logins -> Nat]
    BY <1>1, SentStep
  <1>4. item' \in [Logins -> Items]
    BY <1>1, ItemStep
  <1>5. paired' \subseteq Logins
    BY PairedStep
  <1> QED BY <1>2, <1>3, <1>4, <1>5 DEF TypeEvents

-----------------------------------------------------------------------------
(* The order in which serveCmd opens and closes.                           *)

\* Every step is one of serveCmd, or of its traffic, or leaves both alone.
LEMMA DaemonEffects ==
  ASSUME [Next]_vars
  PROVE  \/ UNCHANGED daemonVars
         \/ OpenSession \/ OpenAppStore \/ Resume \/ Listen \/ Terminate
         \/ Drained \/ TimedOut \/ CloseApp \/ CloseWA \/ Exit
         \/ StreamLeft \/ Deliver
         \/ /\ phase = "serving"
            /\ \E c \in Clients : streaming' = streaming \cup {c}
            /\ UNCHANGED <<serveVars, handed, lost>>
  BY Steps DEF OutsideStep, vars

\* The type of what serveCmd keeps.
LEMMA TypeDaemonStep ==
  ASSUME TypeDaemon, [Next]_vars
  PROVE  TypeDaemon'
  <1> USE DEF TypeDaemon, Phases
  <1>1. CASE UNCHANGED daemonVars
    BY <1>1 DEF daemonVars
  <1>2. CASE OpenSession
    <2>1. /\ phase' \in {"session", "down"}
          /\ UNCHANGED <<appStore, graceful, streaming, handed, lost>>
      BY <1>2 DEF OpenSession, Step, traffic
    <2>2. runs' \in Nat
      BY <1>2 DEF OpenSession
    <2> QED BY <2>1, <2>2
  <1>3. CASE OpenAppStore \/ Resume \/ Listen \/ Terminate
    BY <1>3 DEF OpenAppStore, Resume, Listen, Terminate, Step, traffic
  <1>4. CASE Drained \/ TimedOut
    BY <1>4 DEF Drained, TimedOut, Step, traffic
  <1>5. CASE CloseApp \/ CloseWA
    BY <1>5 DEF CloseApp, CloseWA, Step, traffic
  <1>6. CASE Exit
    BY <1>6 DEF Exit
  <1>7. CASE StreamLeft
    BY <1>7 DEF StreamLeft, serveVars
  <1>8. CASE Deliver
    <2>1. UNCHANGED <<phase, appStore, graceful, runs, streaming>> /\ lost' \subseteq Phases
      BY <1>8 DEF Deliver, serveVars
    <2>2. handed' \in Nat
      BY <1>8 DEF Deliver
    <2> QED BY <2>1, <2>2
  <1>9. CASE /\ phase = "serving"
             /\ \E c \in Clients : streaming' = streaming \cup {c}
             /\ UNCHANGED <<serveVars, handed, lost>>
    BY <1>9 DEF serveVars
  <1> QED BY <1>1, <1>2, <1>3, <1>4, <1>5, <1>6, <1>7, <1>8, <1>9, DaemonEffects

\* A login that holds the flag held it before, or was just taken by a
\* server that is serving; and none survives its process.
LEMMA WhoHolds ==
  ASSUME TypeLogins, [Next]_vars, NEW l \in Logins, Holds(l)'
  PROVE  Holds(l) \/ (phase = "serving" /\ UNCHANGED daemonVars)
  <1> USE DEF TypeLogins
  <1>1. CASE Still \/ Signals
    BY <1>1 DEF Still, Signals, Holds
  <1>2. CASE Dies
    BY <1>2 DEF Dies, Holds
  <1>3. ASSUME NEW m \in Logins, Onward(m) PROVE Holds(l)
    BY <1>3 DEF Onward, Moves, Holds
  <1>4. ASSUME NEW m \in Logins, Frees(m) PROVE Holds(l)
    BY <1>4 DEF Frees, Holds
  <1>5. ASSUME NEW m \in Logins, NEW k, Begins(m, k)
        PROVE  phase = "serving" /\ UNCHANGED daemonVars
    BY <1>5 DEF Begins
  <1>6. ASSUME NEW m \in Logins, NEW k, Refused(m, k) PROVE Holds(l)
    BY <1>6 DEF Refused, Holds
  <1> QED BY <1>1, <1>2, <1>3, <1>4, <1>5, <1>6, LoginEffects

\* A connection is made by Resume, by whatsmeow for a device that Resume
\* connected, or by a login.
LEMMA WhoConnects ==
  ASSUME TypeLogins, [Next]_vars, conn' # "down"
  PROVE  \/ conn # "down"
         \/ phase \in {"resume", "listen", "serving", "shutdown", "closeApp"}
         \/ \E l \in Logins : Holds(l)
  <1> DEFINE Goal == \/ conn # "down"
                     \/ phase \in {"resume", "listen", "serving", "shutdown", "closeApp"}
                     \/ \E l \in Logins : Holds(l)
  <1>1. ASSUME conn' = conn PROVE Goal
    BY <1>1
  <1>2. CASE Resume
    BY <1>2 DEF Resume, Step
  <1>3. CASE Exit \/ CloseWA
    BY <1>3 DEF Exit, CloseWA
  <1>4. CASE OutsideStep
    BY <1>4 DEF OutsideStep, sessionVars
  <1>5. CASE PairSuccess \/ PairError \/ LogIn \/ Drop \/ Unlinked \/ Logout \/ LogoutEnds
             \/ (phase \in {"listen", "serving", "shutdown", "closeApp"} /\ Reconnect)
    BY <1>5 DEF PairSuccess, PairError, LogIn, Drop, Unlinked, Logout, LogoutEnds, whatsmeow
  <1>6. ASSUME NEW l \in Logins, NEW k, NEW v, Login(l, k, v) PROVE Goal
    BY <1>6 DEF Login, whatsmeow
  <1>7. ASSUME NEW l \in Logins, LoginStep(l) PROVE Goal
    <2>1. CASE Dial(l)
      <3>1. Holds(l)
        BY <2>1 DEF Dial, Holds
      <3> QED BY <3>1
    <2>2. CASE OpenQR(l) \/ PairPhone(l) \/ QRTake(l) \/ QREnd(l) \/ SendCode(l)
               \/ PhoneWait(l) \/ SendTerm(l) \/ Clear(l) \/ Close(l)
      <3>1. conn' = conn
        BY <2>2 DEF OpenQR, PairPhone, QRTake, QREnd, SendCode, PhoneWait, SendTerm, Clear,
                    Close, whatsmeow
      <3> QED BY <1>1, <3>1
    <2>3. CASE Forward(l) \/ StreamEnds(l) \/ ToolReturns(l) \/ HangUp(l)
               \/ CliRead(l) \/ CliStreamClosed(l)
      <3>1. conn' = conn
        BY <2>3 DEF Forward, StreamEnds, ToolReturns, HangUp, CliRead, CliStreamClosed,
                    whatsmeow
      <3> QED BY <1>1, <3>1
    <2>4. CASE ShowCode(l) \/ CodesRunOut(l) \/ QRCancelled(l)
      BY <2>4 DEF ShowCode, CodesRunOut, QRCancelled
    <2> QED BY <1>7, <2>1, <2>2, <2>3, <2>4 DEF LoginStep
  <1> HIDE DEF Goal
  <1> QED BY <1>1, <1>2, <1>3, <1>4, <1>5, <1>6, <1>7, Steps DEF AccountStep, Goal

\* The app store is open from OpenAppStore to CloseApp.
StoreOpenWhile ==
  appStore = "open" <=> phase \in {"resume", "listen", "serving", "shutdown", "closeApp"}

\* Before the app store is opened nothing is connected and no login runs.
QuietBefore ==
  phase \in {"down", "session"} => conn = "down" /\ \A l \in Logins : ~Holds(l)

\* Shutdown was graceful only if it is over and left no handler.
GracefulShutdown ==
  graceful => phase \in {"closeApp", "closeWA", "exit"} /\ Idle

ServeInv ==
  TypeDaemon /\ StoreOpenWhile /\ QuietBefore /\ LostOnlyInWindow /\ GracefulShutdown

\* The app store is opened and closed with the phases.
LEMMA StoreOpenStep ==
  ASSUME TypeDaemon, StoreOpenWhile, [Next]_vars
  PROVE  StoreOpenWhile'
  <1> USE DEF StoreOpenWhile
  <1>1. CASE UNCHANGED daemonVars \/ StreamLeft \/ Deliver
    BY <1>1 DEF daemonVars, StreamLeft, Deliver, serveVars
  <1>2. CASE OpenSession \/ OpenAppStore
    BY <1>2 DEF OpenSession, OpenAppStore, Step
  <1>3. CASE Resume \/ Listen \/ Terminate
    BY <1>3 DEF Resume, Listen, Terminate, Step
  <1>4. CASE Drained \/ TimedOut
    BY <1>4 DEF Drained, TimedOut, Step
  <1>5. CASE CloseApp \/ CloseWA \/ Exit
    BY <1>5 DEF CloseApp, CloseWA, Exit, Step
  <1>6. CASE UNCHANGED <<serveVars, handed, lost>>
    BY <1>6 DEF serveVars
  <1> QED BY <1>1, <1>2, <1>3, <1>4, <1>5, <1>6, DaemonEffects

\* Exit disconnects and ends every login; the next run begins with none.
LEMMA QuietStep ==
  ASSUME TypeLogins, TypeDaemon, QuietBefore, [Next]_vars
  PROVE  QuietBefore'
  <1>1. ASSUME phase \in {"down", "session"} PROVE conn' = "down" /\ \A l \in Logins : ~Holds(l)'
    BY <1>1, WhoHolds, WhoConnects DEF QuietBefore
  <1>2. CASE Exit
    BY <1>2 DEF Exit, QuietBefore, Holds
  <1>3. CASE ~Exit
    <2>1. phase' \in {"down", "session"} => phase \in {"down", "session"}
      <3>1. CASE UNCHANGED daemonVars \/ StreamLeft \/ Deliver
        BY <3>1 DEF daemonVars, StreamLeft, Deliver, serveVars
      <3>2. CASE OpenSession \/ OpenAppStore \/ Resume \/ Listen \/ Terminate
        BY <3>2 DEF OpenSession, OpenAppStore, Resume, Listen, Terminate, Step
      <3>3. CASE Drained \/ TimedOut \/ CloseApp \/ CloseWA
        BY <3>3 DEF Drained, TimedOut, CloseApp, CloseWA, Step
      <3>4. CASE UNCHANGED <<serveVars, handed, lost>>
        BY <3>4 DEF serveVars
      <3> QED BY <1>3, <3>1, <3>2, <3>3, <3>4, DaemonEffects
    <2> QED BY <1>1, <2>1 DEF QuietBefore, Holds
  <1> QED BY <1>2, <1>3

\* A message that comes while somebody is logged in finds the app store
\* open, or comes in the window between the deferred functions.
LEMMA LostStep ==
  ASSUME ServeInv, [Next]_vars
  PROVE  LostOnlyInWindow'
  <1> USE DEF LostOnlyInWindow
  <1>1. LostOnlyInWindow
    BY DEF ServeInv
  <1>2. CASE Deliver
    <2>1. phase \notin {"down", "exit", "session"}
      BY <1>2 DEF Deliver, Alive, LoggedIn, ServeInv, QuietBefore
    <2>2. appStore # "open" => phase = "closeWA"
      BY <2>1 DEF ServeInv, StoreOpenWhile, TypeDaemon, Phases
    <2>3. lost' = lost \/ (appStore # "open" /\ lost' = lost \cup {phase})
      BY <1>2 DEF Deliver
    <2> QED BY <1>1, <2>2, <2>3
  <1>3. CASE UNCHANGED lost
    BY <1>1, <1>3
  <1>4. CASE OpenSession \/ OpenAppStore \/ Resume \/ Listen \/ Terminate
    BY <1>1, <1>4 DEF OpenSession, OpenAppStore, Resume, Listen, Terminate, traffic
  <1>5. CASE Drained \/ TimedOut \/ CloseApp \/ CloseWA \/ Exit
    BY <1>1, <1>5 DEF Drained, TimedOut, CloseApp, CloseWA, Exit, traffic
  <1>6. CASE UNCHANGED daemonVars \/ StreamLeft
    BY <1>1, <1>6 DEF daemonVars, StreamLeft
  <1> QED BY <1>2, <1>3, <1>4, <1>5, <1>6, DaemonEffects

\* Once Shutdown has returned no request is taken, so that no handler begins
\* before the process is gone.
LEMMA GracefulStep ==
  ASSUME TypeDaemon, GracefulShutdown, [Next]_vars
  PROVE  GracefulShutdown'
  <1> USE DEF GracefulShutdown
  <1>1. CASE Exit
    BY <1>1 DEF Exit
  <1>2. CASE Drained
    BY <1>2 DEF Drained, Step, Idle, sessionVars, traffic
  <1>3. CASE OpenSession \/ OpenAppStore \/ Listen \/ Terminate \/ TimedOut
    BY <1>3 DEF OpenSession, OpenAppStore, Listen, Terminate, TimedOut, Step
  <1>4. CASE Resume
    BY <1>4 DEF Resume, Step
  <1>5. CASE CloseApp \/ CloseWA
    BY <1>5 DEF CloseApp, CloseWA, Step, Idle, sessionVars, handler, traffic
  <1>6. CASE Deliver
    BY <1>6 DEF Deliver, serveVars, Idle, sessionVars
  <1>7. CASE StreamLeft
    BY <1>7 DEF StreamLeft, serveVars, Idle, sessionVars
  <1>8. CASE phase = "serving" /\ UNCHANGED <<serveVars, handed, lost>>
    BY <1>8 DEF serveVars
  <1>9. CASE UNCHANGED daemonVars
    <2>1. UNCHANGED <<phase, graceful, streaming>>
      BY <1>9 DEF daemonVars
    <2>2. graceful => reading' \subseteq reading
      BY HandlersStep
    <2> QED BY <2>1, <2>2 DEF Idle
  <1> QED BY <1>1, <1>2, <1>3, <1>4, <1>5, <1>6, <1>7, <1>8, <1>9, DaemonEffects

\* The daemon begins with nothing open.
LEMMA ServeInit == Init => ServeInv
  <1> SUFFICES ASSUME Init PROVE ServeInv
    OBVIOUS
  <1>1. /\ phase = "down" /\ appStore = "closed" /\ streaming = {} /\ graceful = FALSE
        /\ handed = 0 /\ lost = {} /\ runs = 0
    BY DEF Init
  <1>2. conn = "down" /\ \A l \in Logins : ~Holds(l)
    BY DEF Init, SessionInit, Holds
  <1>3. TypeDaemon
    BY <1>1 DEF TypeDaemon, Phases
  <1> QED BY <1>1, <1>2, <1>3 DEF ServeInv, StoreOpenWhile, QuietBefore, LostOnlyInWindow,
                                  GracefulShutdown

\* The invariant of serveCmd holds throughout.
LEMMA ServeSafe == Spec => []ServeInv
  <1>1. LoginInv /\ ServeInv /\ [Next]_vars => ServeInv'
    <2>1. LoginInv /\ ServeInv => TypeLogins /\ TypeDaemon /\ StoreOpenWhile /\ QuietBefore
                                  /\ GracefulShutdown
      BY DEF LoginInv, ServeInv
    <2> QED BY <2>1, TypeDaemonStep, StoreOpenStep, QuietStep, LostStep, GracefulStep
            DEF ServeInv
  <1> QED BY LoginSafe, ServeInit, <1>1, PTL DEF Spec

\* A message can be lost only between the deferred functions that close the
\* app store and the connection, whatever fails, drops or restarts before.
THEOREM DaemonLosesOnlyInWindow == Spec => []LostOnlyInWindow
  <1>1. ServeInv => LostOnlyInWindow
    BY DEF ServeInv
  <1> QED BY ServeSafe, <1>1, PTL

\* After a graceful shutdown neither a login handler nor an event stream is
\* left to meet a closed store.
THEOREM DaemonGracefulLeavesNoHandler == Spec => []GracefulLeavesNoHandler
  <1>1. ServeInv => GracefulLeavesNoHandler
    BY DEF ServeInv, GracefulShutdown, GracefulLeavesNoHandler
  <1> QED BY ServeSafe, <1>1, PTL

-----------------------------------------------------------------------------
(* The type of every variable.                                             *)

\* In the beginning every variable has its type.
LEMMA TypeInit == Init => TypeEvents /\ TypeRest /\ TypeCalls
  <1> SUFFICES ASSUME Init PROVE TypeEvents /\ TypeRest /\ TypeCalls
    OBVIOUS
  <1>1. TypeEvents
    <2>1. /\ qrCh = [l \in Logins |-> <<>>] /\ item = [l \in Logins |-> "code"]
          /\ sent = [l \in Logins |-> <<>>] /\ taken = [l \in Logins |-> 0] /\ paired = {}
      BY DEF Init, SessionInit
    <2>2. <<>> \in Seq(Items) /\ "code" \in Items
      BY DEF Items
    <2> QED BY <2>1, <2>2 DEF TypeEvents
  <1>2. TypeRest
    <2>1. /\ linked \in BOOLEAN /\ conn = "down" /\ linkCode = FALSE /\ qrOpen = {}
          /\ muHeld = FALSE
      BY DEF Init, SessionInit
    <2>2. codes = [l \in Logins |-> 0] /\ drops = 0 /\ logouts = 0
      BY DEF Init, SessionInit
    <2>3. codes \in [Logins -> Nat] /\ drops \in Nat /\ logouts \in Nat
      BY <2>2
    <2> QED BY <2>1, <2>3 DEF TypeRest
  <1>3. TypeCalls
    <2>1. /\ via = [l \in Logins |-> "cli"] /\ live = [l \in Logins |-> TRUE]
          /\ reading = {} /\ cli = [l \in Logins |-> "waiting"]
      BY DEF Init, SessionInit
    <2>2. seen \in [Logins -> Nat]
      BY DEF Init, SessionInit
    <2> QED BY <2>1, <2>2 DEF TypeCalls
  <1> QED BY <1>1, <1>2, <1>3

EventsInv == TypeEvents /\ TypeRest /\ TypeCalls

\* The types of the session hold throughout.
LEMMA EventsSafe == Spec => []EventsInv
  <1>1. Init => EventsInv
    BY TypeInit DEF EventsInv
  <1>2. LoginInv /\ EventsInv /\ [Next]_vars => EventsInv'
    BY TypeEventsStep, TypeRestStep, TypeCallsStep DEF EventsInv
  <1> QED BY LoginSafe, <1>1, <1>2, PTL DEF Spec

\* Every variable of the session and of the daemon has its type, for any
\* number of logins, codes, connections and restarts.
THEOREM DaemonTypeCorrect == Spec => []TypeOK
  <1>1. LoginInv /\ EventsInv /\ ServeInv => TypeOK
    BY TypeParts DEF LoginInv, EventsInv, ServeInv
  <1> QED BY LoginSafe, EventsSafe, ServeSafe, <1>1, PTL

-----------------------------------------------------------------------------
(* What the CLI says.                                                      *)

Success(q) == \E i \in DOMAIN q : q[i] = "success"

\* The places before a login shows its first event.
Early == {"idle", "open", "dial", "pair"}

\* A login that has not begun has no QR channel, and one that has not
\* dialled has shown nothing.
NothingYet ==
  \A l \in Logins :
    /\ pc[l] = "idle" => qrCh[l] = <<>> /\ l \notin qrOpen
    /\ pc[l] \in Early => sent[l] = <<>>

\* A handler takes only what was sent.
TakenWasSent == \A l \in Logins : taken[l] <= Len(sent[l])

\* Success has come as far as the QR channel, the goroutine, the pairing
\* channel, the login's own channel or the CLI; in a QR channel that nobody
\* will range over it means nothing.
SuccessOnItsWay(l) ==
  \/ Holds(l) /\ Success(qrCh[l])
  \/ pc[l] = "sendTerm" /\ item[l] = "success"
  \/ Success(pair[l]) \/ Success(sent[l])
  \/ cli[l] = "logged in"

\* Success is on its way to a CLI only for a login during which the account
\* was linked.
SuccessIsPaired == \A l \in Logins : SuccessOnItsWay(l) => l \in paired

\* A login shows codes until its last event, which is an outcome.
OnlyCodes ==
  \A l \in Logins :
    /\ pc[l] \notin {"clear", "close", "done"} =>
         \A i \in DOMAIN sent[l] : sent[l][i] = "code"
    /\ pc[l] = "sendTerm" => item[l] \in Outcomes

TruthInv == NothingYet /\ TakenWasSent /\ SuccessIsPaired /\ OnlyCodes

\* What a queue holds when one item is taken from its head or added to it.
LEMMA SuccessInQueue ==
  ASSUME NEW S, NEW q \in Seq(S)
  PROVE  /\ q # <<>> /\ Success(Tail(q)) => Success(q)
         /\ q # <<>> /\ Head(q) = "success" => Success(q)
         /\ \A i \in S : Success(Append(q, i)) => i = "success" \/ Success(q)
  <1>1. ASSUME q # <<>>, Success(Tail(q)) PROVE Success(q)
    <2>1. PICK i \in DOMAIN Tail(q) : Tail(q)[i] = "success"
      BY <1>1 DEF Success
    <2>2. i + 1 \in DOMAIN q /\ q[i + 1] = Tail(q)[i]
      BY <1>1
    <2> QED BY <2>1, <2>2 DEF Success
  <1>2. ASSUME q # <<>>, Head(q) = "success" PROVE Success(q)
    <2>1. 1 \in DOMAIN q /\ q[1] = Head(q)
      BY <1>2
    <2> QED BY <1>2, <2>1 DEF Success
  <1>3. ASSUME NEW i \in S, Success(Append(q, i)), i # "success" PROVE Success(q)
    <2>1. PICK j \in DOMAIN Append(q, i) : Append(q, i)[j] = "success"
      BY <1>3 DEF Success
    <2>2. j # Len(q) + 1
      BY <1>3, <2>1
    <2>3. j \in DOMAIN q /\ Append(q, i)[j] = q[j]
      BY <2>1, <2>2
    <2> QED BY <2>1, <2>3 DEF Success
  <1> QED BY <1>1, <1>2, <1>3

\* An empty queue holds no success, and a queue of one only that one.
LEMMA SuccessInShortQueue ==
  /\ ~Success(<<>>)
  /\ \A i : i # "success" => ~Success(<<i>>)
  <1>1. ~Success(<<>>)
    <2>1. DOMAIN <<>> = {}
      OBVIOUS
    <2> QED BY <2>1 DEF Success
  <1>2. ASSUME NEW i, i # "success", NEW j \in DOMAIN <<i>> PROVE <<i>>[j] # "success"
    <2>1. j = 1
      OBVIOUS
    <2> QED BY <1>2, <2>1
  <1> QED BY <1>1, <1>2 DEF Success

\* A reader that is behind a taker reads what is in the queue.
LEMMA SuccessWasSent ==
  ASSUME NEW q \in Seq(Items), NEW n \in Nat, NEW k \in Nat, n < k, k <= Len(q),
         q[n + 1] = "success"
  PROVE  Success(q)
  <1>1. n + 1 \in DOMAIN q
    <2>1. n + 1 \in 1 .. Len(q)
      OBVIOUS
    <2> QED BY <2>1
  <1> QED BY <1>1 DEF Success

\* A login that is at one of its places was at an earlier one, or there.
LEMMA PlacesBack ==
  ASSUME TypeLogins, [Next]_vars, NEW l \in Logins
  PROVE  /\ pc'[l] = "idle" => pc[l] = "idle"
         /\ Holds(l)' => Holds(l) \/ pc[l] = "idle"
         /\ pc'[l] \in Early => pc[l] \in Early
         /\ pc'[l] \notin {"clear", "close", "done"} =>
              pc[l] \notin {"clear", "close", "done"}
  <1> DEFINE Goal == /\ pc'[l] = "idle" => pc[l] = "idle"
                     /\ Holds(l)' => Holds(l) \/ pc[l] = "idle"
                     /\ pc'[l] \in Early => pc[l] \in Early
                     /\ pc'[l] \notin {"clear", "close", "done"} =>
                          pc[l] \notin {"clear", "close", "done"}
  <1> SUFFICES Goal
    OBVIOUS
  <1> USE DEF TypeLogins, Early, Holds
  <1>1. CASE Still \/ Signals
    BY <1>1 DEF Still, Signals
  <1>2. CASE Dies
    BY <1>2 DEF Dies
  <1>3. ASSUME NEW m \in Logins, Onward(m) PROVE Goal
    BY <1>3 DEF Onward, Moves
  <1>4. ASSUME NEW m \in Logins, Frees(m) PROVE Goal
    BY <1>4 DEF Frees
  <1>5. ASSUME NEW m \in Logins, NEW k, Begins(m, k) \/ Refused(m, k) PROVE Goal
    BY <1>5 DEF Begins, Refused
  <1> HIDE DEF Goal
  <1> QED BY <1>1, <1>2, <1>3, <1>4, <1>5, LoginEffects

\* A login is untouched until it begins, and silent until it has dialled.
LEMMA NothingYetStep ==
  ASSUME TypeLogins, TypeEvents, TypeRest, NothingYet, [Next]_vars
  PROVE  NothingYet'
  <1> SUFFICES ASSUME NEW l \in Logins
               PROVE  /\ pc'[l] = "idle" => qrCh'[l] = <<>> /\ l \notin qrOpen'
                      /\ pc'[l] \in Early => sent'[l] = <<>>
    BY DEF NothingYet
  <1>1. ASSUME pc'[l] = "idle" PROVE qrCh'[l] = <<>> /\ l \notin qrOpen'
    <2>1. pc[l] = "idle" /\ qrCh[l] = <<>> /\ l \notin qrOpen
      BY <1>1, PlacesBack DEF NothingYet
    <2>2. qrCh'[l] = <<>>
      BY <2>1, QrChStep
    <2>3. l \notin qrOpen'
      BY <2>1, WhoOpens
    <2> QED BY <2>2, <2>3
  <1>2. ASSUME pc'[l] \in Early PROVE sent'[l] = <<>>
    <2>1. sent[l] = <<>>
      BY <1>2, PlacesBack DEF NothingYet
    <2>2. pc'[l] \notin {"wait", "range", "clear"}
      BY <1>2 DEF Early
    <2> QED BY <2>1, <2>2, SentStep
  <1> QED BY <1>1, <1>2

\* Handlers do not run ahead of the channel.
LEMMA TakenStep ==
  ASSUME TypeLogins, TypeEvents, NothingYet, TakenWasSent, [Next]_vars
  PROVE  TakenWasSent'
  <1> SUFFICES ASSUME NEW l \in Logins PROVE taken'[l] <= Len(sent'[l])
    BY DEF TakenWasSent
  <1>1. sent[l] \in Seq(Items) /\ taken[l] \in Nat /\ taken[l] <= Len(sent[l])
    BY DEF TypeEvents, TakenWasSent
  <1>2. CASE sent'[l] = sent[l] /\ taken'[l] = taken[l]
    BY <1>1, <1>2
  <1>3. CASE sent'[l] = sent[l] /\ taken[l] < Len(sent[l]) /\ taken'[l] = taken[l] + 1
    BY <1>1, <1>3
  <1>4. CASE taken'[l] = taken[l] /\ pc[l] = "pair" /\ sent'[l] = <<"code">>
    <2>1. sent[l] = <<>>
      BY <1>4 DEF NothingYet, Early
    <2>2. Len(sent'[l]) = 1
      BY <1>4
    <2> QED BY <1>1, <1>4, <2>1, <2>2
  <1>5. ASSUME taken'[l] = taken[l], NEW i \in Items, sent'[l] = Append(sent[l], i)
        PROVE  taken'[l] <= Len(sent'[l])
    <2>1. Len(sent'[l]) = Len(sent[l]) + 1
      BY <1>1, <1>5
    <2> QED BY <1>1, <1>5, <2>1
  <1>6. "code" \in Items /\ item[l] \in Items
    BY DEF Items, TypeEvents
  <1> QED BY <1>2, <1>3, <1>4, <1>5, <1>6, SentStep

\* Success reaches a place on its way only from the place before it, and
\* the first of them only with the link, while the login holds the flag.
LEMMA SuccessStep ==
  ASSUME LoginInv, TypeEvents, TypeRest, TypeCalls, TruthInv, [Next]_vars
  PROVE  SuccessIsPaired'
  <1>0. TypeLogins /\ NothingYet /\ TakenWasSent /\ SuccessIsPaired
    BY DEF LoginInv, TruthInv
  <1>2. ASSUME NEW l \in Logins PROVE SuccessOnItsWay(l) => l \in paired'
    BY <1>0, PairedStep DEF SuccessIsPaired
  <1>3. ASSUME NEW l \in Logins, PairSuccess, Holds(l) PROVE l \in paired'
    BY <1>3, PairedStep
  <1> SUFFICES ASSUME NEW l \in Logins, SuccessOnItsWay(l)' PROVE l \in paired'
    BY DEF SuccessIsPaired
  <1> USE DEF SuccessOnItsWay
  <1>4. qrCh[l] \in Seq(Items) /\ sent[l] \in Seq(Items) /\ item[l] \in Items
    BY DEF TypeEvents
  <1>5. CASE Holds(l)' /\ Success(qrCh'[l])
    <2>1. CASE pc[l] = "idle"
      <3>1. qrCh'[l] = <<>>
        BY <1>0, <2>1, QrChStep DEF NothingYet
      <3> QED BY <1>5, <3>1, SuccessInShortQueue
    <2>2. CASE Holds(l)
      <3>1. CASE Success(qrCh[l])
        BY <1>2, <2>2, <3>1
      <3>2. CASE ~Success(qrCh[l])
        <4>1. CASE qrCh'[l] = qrCh[l]
          BY <1>5, <3>2, <4>1
        <4>2. CASE qrCh[l] # <<>> /\ qrCh'[l] = Tail(qrCh[l])
          BY <1>4, <1>5, <3>2, <4>2, SuccessInQueue
        <4>3. ASSUME NEW i \in Items, qrCh'[l] = Append(qrCh[l], i),
                     i = "success" => PairSuccess
              PROVE  l \in paired'
          <5>1. i = "success"
            BY <1>4, <1>5, <3>2, <4>3, SuccessInQueue
          <5> QED BY <1>3, <2>2, <4>3, <5>1
        <4> QED BY <1>0, <4>1, <4>2, <4>3, QrChStep
      <3> QED BY <3>1, <3>2
    <2> QED BY <1>0, <1>5, <2>1, <2>2, PlacesBack
  <1>6. CASE pc'[l] = "sendTerm" /\ item'[l] = "success"
    <2>1. CASE pc[l] = "sendTerm" /\ item'[l] = item[l]
      BY <1>2, <1>6, <2>1
    <2>2. CASE pc[l] = "range" /\ qrCh[l] # <<>> /\ item'[l] = Head(qrCh[l])
      <3>1. Success(qrCh[l])
        BY <1>4, <1>6, <2>2, SuccessInQueue
      <3>2. Holds(l)
        BY <2>2 DEF Holds
      <3> QED BY <1>2, <3>1, <3>2
    <2>3. CASE pair[l] # <<>> /\ item'[l] = Head(pair[l])
      <3>1. pair[l] \in Seq(Outcomes)
        BY <1>0 DEF TypeLogins
      <3>2. Head(pair[l]) = "success"
        BY <1>6, <2>3
      <3>3. Success(pair[l])
        BY <2>3, <3>1, <3>2, SuccessInQueue
      <3> QED BY <1>2, <3>3
    <2>4. CASE item'[l] \in {"cancelled", "timeout"}
      BY <1>6, <2>4
    <2> QED BY <1>0, <1>6, <2>1, <2>2, <2>3, <2>4, ItemStep
  <1>7. CASE Success(pair'[l])
    <2>1. CASE pair'[l] = pair[l]
      BY <1>2, <1>7, <2>1
    <2>2. ~Success(<<"error">>)
      BY SuccessInShortQueue
    <2>3. CASE PairSuccess /\ Holds(l)
      BY <1>3, <2>3
    <2> QED BY <1>7, <2>1, <2>2, <2>3, PairedStep
  <1>8. CASE Success(sent'[l])
    <2>1. CASE sent'[l] = sent[l]
      BY <1>2, <1>8, <2>1
    <2>2. CASE sent'[l] = <<"code">>
      <3>1. ~Success(<<"code">>)
        BY SuccessInShortQueue
      <3> QED BY <1>8, <2>2, <3>1
    <2>3. CASE sent'[l] = Append(sent[l], "code")
      <3>1. "code" \in Items
        BY DEF Items
      <3>2. Success(sent[l])
        BY <1>4, <1>8, <2>3, <3>1, SuccessInQueue
      <3> QED BY <1>2, <3>2
    <2>4. CASE pc[l] = "sendTerm" /\ sent'[l] = Append(sent[l], item[l])
      <3>1. item[l] = "success" \/ Success(sent[l])
        BY <1>4, <1>8, <2>4, SuccessInQueue
      <3> QED BY <1>2, <2>4, <3>1
    <2> QED BY <1>0, <2>1, <2>2, <2>3, <2>4, SentStep
  <1>9. CASE cli'[l] = "logged in"
    <2>1. CASE cli[l] = "logged in"
      BY <1>2, <2>1
    <2>2. CASE seen[l] < taken[l] /\ sent[l][seen[l] + 1] = "success"
      <3>1. seen[l] \in Nat
        BY DEF TypeCalls
      <3>2. taken[l] \in Nat /\ taken[l] <= Len(sent[l])
        BY <1>0 DEF TypeEvents, TakenWasSent
      <3>3. Success(sent[l])
        BY <1>4, <2>2, <3>1, <3>2, SuccessWasSent
      <3> QED BY <1>2, <3>3
    <2> QED BY <1>9, <2>1, <2>2, CliStep
  <1> QED BY <1>5, <1>6, <1>7, <1>8, <1>9

\* Codes are shown before the last event, and the last event is no code.
LEMMA OnlyCodesStep ==
  ASSUME LoginInv, TypeEvents, TypeRest, TruthInv, [Next]_vars
  PROVE  OnlyCodes'
  <1>0. TypeLogins /\ OnlyCodes
    BY DEF LoginInv, TruthInv
  <1> SUFFICES ASSUME NEW l \in Logins
               PROVE  /\ pc'[l] \notin {"clear", "close", "done"} =>
                           \A i \in DOMAIN sent'[l] : sent'[l][i] = "code"
                      /\ pc'[l] = "sendTerm" => item'[l] \in Outcomes
    BY DEF OnlyCodes
  <1>1. sent[l] \in Seq(Items) /\ qrCh[l] \in Seq(Items) /\ pair[l] \in Seq(Outcomes)
    BY <1>0 DEF TypeEvents, TypeLogins
  <1>2. ASSUME pc'[l] \notin {"clear", "close", "done"}
        PROVE  \A i \in DOMAIN sent'[l] : sent'[l][i] = "code"
    <2>1. \A i \in DOMAIN sent[l] : sent[l][i] = "code"
      BY <1>0, <1>2, PlacesBack DEF OnlyCodes
    <2>2. CASE sent'[l] = sent[l]
      BY <2>1, <2>2
    <2>3. CASE sent'[l] = <<"code">>
      BY <2>3
    <2>4. CASE sent'[l] = Append(sent[l], "code")
      BY <1>1, <2>1, <2>4
    <2> QED BY <1>0, <1>2, <2>2, <2>3, <2>4, SentStep
  <1>3. ASSUME pc'[l] = "sendTerm" PROVE item'[l] \in Outcomes
    <2>1. CASE pc[l] = "sendTerm" /\ item'[l] = item[l]
      BY <1>0, <2>1 DEF OnlyCodes
    <2>2. CASE qrCh[l] # <<>> /\ item'[l] = Head(qrCh[l]) /\ item'[l] # "code"
      <3>1. Head(qrCh[l]) \in Items
        BY <1>1, <2>2
      <3> QED BY <2>2, <3>1 DEF Items
    <2>3. CASE pair[l] # <<>> /\ item'[l] = Head(pair[l])
      BY <1>1, <2>3
    <2>4. CASE item'[l] \in {"cancelled", "timeout"}
      BY <2>4 DEF Outcomes
    <2> QED BY <1>0, <1>3, <2>1, <2>2, <2>3, <2>4, ItemStep
  <1> QED BY <1>2, <1>3

\* In the beginning nothing is on its way.
LEMMA TruthInit == Init => TruthInv
  <1> SUFFICES ASSUME Init PROVE TruthInv
    OBVIOUS
  <1>1. \A l \in Logins : /\ qrCh[l] = <<>> /\ sent[l] = <<>> /\ pair[l] = <<>>
                          /\ pc[l] = "idle" /\ taken[l] = 0 /\ cli[l] = "waiting"
    BY DEF Init, SessionInit
  <1>2. qrOpen = {}
    BY DEF Init, SessionInit
  <1>3. NothingYet
    BY <1>1, <1>2 DEF NothingYet
  <1>4. SuccessIsPaired
    <2>1. ASSUME NEW l \in Logins PROVE ~SuccessOnItsWay(l)
      BY <1>1, SuccessInShortQueue DEF SuccessOnItsWay, Holds
    <2> QED BY <2>1 DEF SuccessIsPaired
  <1>5. OnlyCodes
    <2>1. DOMAIN <<>> = {}
      OBVIOUS
    <2> QED BY <1>1, <2>1 DEF OnlyCodes
  <1>6. TakenWasSent
    <2>1. Len(<<>>) = 0 /\ 0 <= 0
      OBVIOUS
    <2> QED BY <1>1, <2>1 DEF TakenWasSent
  <1> QED BY <1>3, <1>4, <1>5, <1>6 DEF TruthInv

\* What is on its way to a CLI is true throughout.
LEMMA TruthSafe == Spec => []TruthInv
  <1>1. LoginInv /\ EventsInv /\ TruthInv /\ [Next]_vars => TruthInv'
    <2>1. LoginInv /\ EventsInv /\ TruthInv =>
            TypeLogins /\ TypeEvents /\ TypeRest /\ TypeCalls /\ NothingYet /\ TakenWasSent
      BY DEF LoginInv, EventsInv, TruthInv
    <2> QED BY <2>1, NothingYetStep, TakenStep, SuccessStep, OnlyCodesStep DEF TruthInv
  <1> QED BY LoginSafe, EventsSafe, TruthInit, <1>1, PTL DEF Spec

\* A CLI that says "logged in" is right: the account was linked during its
\* own login, whatever other logins, drops and restarts came in between.
THEOREM DaemonCliTellsTheTruth == Spec => []CliTellsTheTruth
  <1>1. TruthInv => CliTellsTheTruth
    BY DEF TruthInv, SuccessIsPaired, SuccessOnItsWay, CliTellsTheTruth
  <1> QED BY TruthSafe, <1>1, PTL

-----------------------------------------------------------------------------
(* The session implements the abstract pairing.                            *)

\* What the refinement mapping makes of the flag and of the places.
Holder == IF loginInProgress THEN CHOOSE l \in Logins : Holds(l) ELSE NoLogin
Over   == {l \in Logins : pc[l] \in {"close", "done"}}

\* The login in progress is the one that holds the flag.
HolderFits ==
  /\ \A l \in Logins : Holds(l) <=> Holder = l
  /\ (\A l \in Logins : ~Holds(l)) => Holder = NoLogin

\* There is only one to choose.
LEMMA HolderIs == OneLogin => HolderFits
  <1> SUFFICES ASSUME OneLogin PROVE HolderFits
    OBVIOUS
  <1>1. ASSUME NEW l \in Logins, Holds(l) PROVE Holder = l
    <2>1. loginInProgress
      BY <1>1 DEF OneLogin
    <2>2. Holder \in Logins /\ Holds(Holder)
      BY <1>1, <2>1 DEF Holder
    <2> QED BY <1>1, <2>2 DEF OneLogin
  <1>2. ASSUME NEW l \in Logins, Holder = l PROVE Holds(l)
    <2>1. loginInProgress
      BY <1>2, SessionAssumption DEF Holder
    <2>2. \E m \in Logins : Holds(m)
      BY <2>1 DEF OneLogin
    <2> QED BY <1>1, <1>2, <2>2
  <1>3. (\A l \in Logins : ~Holds(l)) => Holder = NoLogin
    BY DEF OneLogin, Holder
  <1> QED BY <1>1, <1>2, <1>3 DEF HolderFits

\* A step after which the same login holds the flag keeps the holder.
LEMMA SameHolder ==
  ASSUME HolderFits, HolderFits', \A l \in Logins : Holds(l)' <=> Holds(l)
  PROVE  Holder' = Holder
  <1>1. ASSUME NEW l \in Logins, Holds(l) PROVE Holder' = Holder
    BY <1>1 DEF HolderFits
  <1>2. CASE \A l \in Logins : ~Holds(l)
    BY <1>2 DEF HolderFits
  <1> QED BY <1>1, <1>2

\* Where no login sends, nothing is shown.
LEMMA ShownBySenders ==
  ASSUME TypeLogins, TypeEvents, [Next]_vars, NEW l \in Logins,
         \A m \in Logins \ {l} : pc'[m] = pc[m] \/ pc'[m] \in {"idle", "done"}
  PROVE  /\ sent' = [sent EXCEPT ![l] = sent'[l]]
         /\ sent'[l] = sent[l] => sent' = sent
  <1>1. sent \in [Logins -> Seq(Items)] /\ sent' \in [Logins -> Seq(Items)]
    BY SentStep DEF TypeEvents
  <1>2. \A m \in Logins \ {l} : sent'[m] = sent[m]
    BY SentStep
  <1> QED BY <1>1, <1>2

\* The link is the holder's.
LEMMA LinkStep ==
  ASSUME LoginInv, HolderFits, HolderFits', TypeEvents, [Next]_vars, PairSuccess
  PROVE  [P!PairingNext]_(P!pairingVars)
  <1>1. UNCHANGED <<pc, sent>>
    BY DEF PairSuccess
  <1>2. Holder' = Holder
    BY <1>1, SameHolder DEF Holds
  <1>3. Over' = Over
    BY <1>1 DEF Over
  <1>4. paired' = paired \cup {l \in Logins : Holds(l)}
    BY DEF PairSuccess
  <1>5. ASSUME NEW l \in Logins, Holds(l) PROVE P!Link(l)
    <2>1. Holder = l
      BY <1>5 DEF HolderFits
    <2>2. paired' = paired \cup {l}
      BY <1>4, <1>5 DEF LoginInv, OneLogin
    <2> QED BY <1>1, <1>2, <1>3, <2>1, <2>2 DEF P!Link, Holder, Over
  <1>6. CASE \A l \in Logins : ~Holds(l)
    <2>1. paired' = paired
      BY <1>4, <1>6
    <2> QED BY <1>1, <1>2, <1>3, <2>1 DEF P!pairingVars, Holder, Over
  <1>7. (\E l \in Logins : P!Link(l)) => P!PairingNext
    BY DEF P!PairingNext
  <1> QED BY <1>5, <1>6, <1>7

\* A login that shows something has not ended, and holds the flag.
LEMMA ShowStep ==
  ASSUME TypeLogins, TypeEvents, TruthInv, HolderFits, NEW l \in Logins,
         pc[l] \in {"pair", "sendCode", "sendTerm"},
         Holder' = Holder, Over' = Over, paired' = paired,
         sent' = [sent EXCEPT ![l] = sent'[l]]
  PROVE  /\ sent'[l] = Append(sent[l], "code") => P!Show(l)
         /\ pc[l] = "sendTerm" /\ sent'[l] = Append(sent[l], item[l]) => P!Finish(l, item[l])
  <1>1. Holder = l
    BY DEF HolderFits, Holds
  <1>2. ~P!Ended(l)
    <2>1. \A i \in DOMAIN sent[l] : sent[l][i] = "code"
      BY DEF TruthInv, OnlyCodes
    <2> QED BY <2>1 DEF P!Ended, P!Ends
  <1>3. ASSUME sent'[l] = Append(sent[l], "code") PROVE P!Show(l)
    <2>1. sent' = [sent EXCEPT ![l] = Append(@, "code")]
      BY <1>3
    <2> QED BY <1>1, <1>2, <2>1 DEF P!Show, Holder, Over
  <1>4. ASSUME pc[l] = "sendTerm", sent'[l] = Append(sent[l], item[l])
        PROVE  P!Finish(l, item[l])
    <2>1. sent' = [sent EXCEPT ![l] = Append(@, item[l])]
      BY <1>4
    <2>2. item[l] = "success" => l \in paired
      BY <1>4 DEF TruthInv, SuccessIsPaired, SuccessOnItsWay
    <2> QED BY <1>1, <1>2, <2>1, <2>2 DEF P!Finish, Holder, Over
  <1> QED BY <1>3, <1>4

\* A login that goes on shows a code, ends with an outcome, or does what
\* nobody sees.
LEMMA MoveStep ==
  ASSUME TypeLogins, TypeEvents, TruthInv, HolderFits, HolderFits', [Next]_vars,
         paired' = paired, NEW l \in Logins, Onward(l)
  PROVE  [P!PairingNext]_(P!pairingVars)
  <1>1. \A m \in Logins : Holds(m)' <=> Holds(m)
    BY DEF Onward, Moves, Holds, TypeLogins
  <1>2. Holder' = Holder
    BY <1>1, SameHolder
  <1>3. Over' = Over
    BY DEF Onward, Moves, Over, TypeLogins
  <1>4. \A m \in Logins \ {l} : pc'[m] = pc[m]
    BY DEF Onward, Moves, TypeLogins
  <1>5. /\ sent' = [sent EXCEPT ![l] = sent'[l]]
        /\ sent'[l] = sent[l] => sent' = sent
    BY <1>4, ShownBySenders
  <1>6. CASE sent'[l] = sent[l]
    BY <1>2, <1>3, <1>5, <1>6 DEF P!pairingVars, Holder, Over
  <1>7. CASE pc[l] \in {"pair", "sendCode"} /\ sent'[l] = Append(sent[l], "code")
    <2>1. P!Show(l)
      BY <1>2, <1>3, <1>5, <1>7, ShowStep
    <2> QED BY <2>1 DEF P!PairingNext
  <1>8. CASE pc[l] = "sendTerm" /\ sent'[l] = Append(sent[l], item[l])
    <2>1. P!Finish(l, item[l])
      BY <1>2, <1>3, <1>5, <1>8, ShowStep
    <2>2. item[l] \in P!Ends
      BY <1>8 DEF TruthInv, OnlyCodes, P!Ends, Outcomes
    <2> QED BY <2>1, <2>2 DEF P!PairingNext
  <1>9. CASE pc[l] = "pair" /\ sent'[l] = <<"code">>
    <2>1. sent[l] = <<>>
      BY <1>9 DEF TruthInv, NothingYet, Early
    <2>2. Append(<<>>, "code") = <<"code">>
      OBVIOUS
    <2> QED BY <1>7, <1>9, <2>1, <2>2
  <1> QED BY <1>6, <1>7, <1>8, <1>9, SentStep

\* A login that begins takes its turn, one that is turned away has had it,
\* and one that gives up the flag makes room.
LEMMA TurnStep ==
  ASSUME TypeLogins, TypeEvents, OneLogin, HolderFits, HolderFits', [Next]_vars,
         paired' = paired, NEW l \in Logins, NEW k \in {"qr", "phone"},
         Begins(l, k) \/ Refused(l, k) \/ Frees(l)
  PROVE  [P!PairingNext]_(P!pairingVars)
  <1>1. CASE Begins(l, k)
    <2>1. \A m \in Logins \ {l} : pc'[m] = pc[m]
      BY <1>1 DEF Begins, TypeLogins
    <2>2. pc[l] = "idle" /\ pc'[l] = "open"
      BY <1>1 DEF Begins, TypeLogins
    <2>3. sent' = sent
      <3>1. sent'[l] = sent[l]
        BY <2>2, SentStep
      <3> QED BY <2>1, <3>1, ShownBySenders
    <2>4. Holder = NoLogin
      BY <1>1 DEF Begins, Holder
    <2>5. Holder' = l
      BY <2>2 DEF HolderFits, Holds
    <2>6. Over' = Over /\ l \notin Over
      BY <2>1, <2>2 DEF Over
    <2>7. P!Take(l)
      BY <2>3, <2>4, <2>5, <2>6 DEF P!Take, Holder, Over
    <2> QED BY <2>7 DEF P!PairingNext
  <1>2. CASE Refused(l, k)
    <2>1. \A m \in Logins \ {l} : pc'[m] = pc[m]
      BY <1>2 DEF Refused, TypeLogins
    <2>2. pc[l] = "idle" /\ pc'[l] = "done"
      BY <1>2 DEF Refused, TypeLogins
    <2>3. sent' = sent
      <3>1. sent'[l] = sent[l]
        BY <2>2, SentStep
      <3> QED BY <2>1, <3>1, ShownBySenders
    <2>4. \A m \in Logins : Holds(m)' <=> Holds(m)
      BY <2>1, <2>2 DEF Holds
    <2>5. Holder' = Holder
      BY <2>4, SameHolder
    <2>6. Holder # l
      BY <2>2 DEF HolderFits, Holds
    <2>7. Over' = Over \cup {l}
      BY <2>1, <2>2 DEF Over
    <2>8. P!Refuse(l)
      BY <2>3, <2>5, <2>6, <2>7 DEF P!Refuse, Holder, Over
    <2> QED BY <2>8 DEF P!PairingNext
  <1>3. CASE Frees(l)
    <2>1. \A m \in Logins \ {l} : pc'[m] = pc[m]
      BY <1>3 DEF Frees, TypeLogins
    <2>2. pc'[l] \in {"close", "done"}
      BY <1>3 DEF Frees, TypeLogins
    <2>3. sent' = sent
      <3>1. sent'[l] = sent[l]
        BY <2>2, SentStep
      <3> QED BY <2>1, <3>1, ShownBySenders
    <2>4. Holder = l
      BY <1>3 DEF Frees, HolderFits
    <2>5. Holder' = NoLogin
      BY <1>3 DEF Frees, Holder
    <2>6. Over' = Over \cup {l}
      BY <2>1, <2>2 DEF Over
    <2>7. P!Free(l)
      BY <2>3, <2>4, <2>5, <2>6 DEF P!Free, Holder, Over
    <2> QED BY <2>7 DEF P!PairingNext
  <1> QED BY <1>1, <1>2, <1>3

\* Every step of the daemon is one of the pairing, or shows nothing of it.
LEMMA PairingStep ==
  ASSUME LoginInv, EventsInv, TruthInv, HolderFits, HolderFits', [Next]_vars
  PROVE  [P!PairingNext]_(P!pairingVars)
  <1>0. TypeLogins /\ TypeEvents /\ OneLogin
    BY DEF LoginInv, EventsInv
  <1>1. CASE PairSuccess
    BY <1>0, <1>1, LinkStep
  <1> SUFFICES ASSUME ~PairSuccess PROVE [P!PairingNext]_(P!pairingVars)
    BY <1>1
  <1>2. paired' = paired
    BY <1>0, PairedStep
  <1>3. CASE Still \/ Signals
    <2>1. UNCHANGED <<pc, loginInProgress>>
      BY <1>3 DEF Still, Signals
    <2>2. \A l \in Logins : sent'[l] = sent[l]
      BY <1>0, <2>1, SentStep
    <2>3. sent' = sent
      BY <1>0, <2>2, SentStep DEF TypeEvents
    <2>4. Holder' = Holder
      BY <2>1, SameHolder DEF Holds
    <2>5. Over' = Over
      BY <2>1 DEF Over
    <2> QED BY <1>2, <2>3, <2>4, <2>5 DEF P!pairingVars, Holder, Over
  <1>4. CASE Dies
    <2>1. \A l \in Logins : pc'[l] = IF pc[l] = "idle" THEN "idle" ELSE "done"
      BY <1>4 DEF Dies
    <2>2. \A l \in Logins : sent'[l] = sent[l]
      BY <1>0, <2>1, SentStep
    <2>3. sent' = sent
      BY <1>0, <2>2, SentStep DEF TypeEvents
    <2>4. Holder' = NoLogin
      BY <1>4 DEF Dies, Holder
    <2>5. PICK begun \in SUBSET Logins : Over' = Over \cup begun
      <3>1. Over' = Over \cup {l \in Logins : pc[l] # "idle"}
        BY <2>1 DEF Over
      <3> QED BY <3>1
    <2>6. P!Die(begun)
      BY <1>2, <2>3, <2>4, <2>5 DEF P!Die, Holder, Over
    <2>7. \E ls \in SUBSET Logins : P!Die(ls)
      BY <2>6, Zenon
    <2> QED BY <2>7 DEF P!PairingNext
  <1>5. ASSUME NEW l \in Logins, Onward(l) PROVE [P!PairingNext]_(P!pairingVars)
    BY <1>0, <1>2, <1>5, MoveStep
  <1>6. ASSUME NEW l \in Logins, NEW k \in {"qr", "phone"},
               Begins(l, k) \/ Refused(l, k) \/ Frees(l)
        PROVE  [P!PairingNext]_(P!pairingVars)
    BY <1>0, <1>2, <1>6, TurnStep
  <1>7. kind \in [Logins -> {"qr", "phone"}]
    BY <1>0 DEF TypeLogins
  <1>8. "qr" \in {"qr", "phone"}
    OBVIOUS
  <1> QED BY <1>3, <1>4, <1>5, <1>6, <1>7, <1>8, LoginEffects

\* In the beginning nobody holds the flag, and nothing was shown.
LEMMA PairingInit == Init => P!PairingInit
  <1> SUFFICES ASSUME Init PROVE P!PairingInit
    OBVIOUS
  <1>1. /\ loginInProgress = FALSE /\ pc = [l \in Logins |-> "idle"]
        /\ sent = [l \in Logins |-> <<>>] /\ paired = {}
    BY DEF Init, SessionInit
  <1>2. Over = {}
    BY <1>1 DEF Over
  <1>3. Holder = NoLogin
    BY <1>1 DEF Holder
  <1> QED BY <1>1, <1>2, <1>3 DEF P!PairingInit, Holder, Over

\* The goroutines, channels, handlers and whatsmeow together implement the
\* abstract pairing, for any number of requests and across restarts.
THEOREM DaemonImplementsPairing == Spec => ImplementsPairing
  <1>1. LoginInv => HolderFits
    BY HolderIs DEF LoginInv
  <1>2. LoginInv /\ EventsInv /\ TruthInv /\ HolderFits /\ HolderFits' /\ [Next]_vars
          => [P!PairingNext]_(P!pairingVars)
    BY PairingStep
  <1> QED BY LoginSafe, EventsSafe, TruthSafe, PairingInit, <1>1, <1>2, PTL
          DEF Spec, ImplementsPairing, P!PairingSpec

=============================================================================
