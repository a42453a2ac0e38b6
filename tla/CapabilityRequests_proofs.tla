---------------------- MODULE CapabilityRequests_proofs ----------------------
(***************************************************************************)
(* Proofs about CapabilityRequests for every set of capabilities, every    *)
(* number of requests and every number of restarts: its state keeps its    *)
(* types, an answer that was taken over is kept, it implements             *)
(* RequestLifecycle, no action waits for nothing, two requests are never   *)
(* out for one capability, and what settles a request frees its capability.*)
(***************************************************************************)
EXTENDS CapabilityRequests, TLAPS

\* Requests are numbered as they are issued, and an action is named after the
\* request that began it.
Numbered ==
    /\ \A q \in Requests : outcome[q] = "unused" <=> q > issued
    /\ \A q \in Requests : info[q].action <= issued

\* What is in the table is open; a synchronous request is there only while the
\* dispatcher waits for it.
Table ==
    /\ \A q \in pending : outcome[q] = "open"
    /\ \A q \in pending : info[q].sync =>
         q = disp.req /\ disp.pc \in {"send", "busy", "wait"}

\* The request the dispatcher works on is the one it has recorded.  Until it is
\* sent nobody else knows of it, and while its cycle waits for the answer it
\* neither expires nor leaves the table.
InHand ==
    /\ disp.pc \in {"check", "begin"} => issued < MaxRequests
    /\ disp.pc \in {"idle", "check", "begin"} => disp.req = None
    /\ disp.pc \in {"register", "send", "busy", "launch", "wait"} =>
         /\ disp.req # None
         /\ info[disp.req].sync = disp.sync
         /\ disp.sync => disp.req \notin lapsed
    /\ disp.pc = "register" => outcome[disp.req] = "open" /\ disp.req \notin pending
    /\ disp.pc \in {"register", "send"} =>
         disp.req \notin delivered \cup accepting \cup response
    /\ disp.pc \in {"send", "busy", "wait"} /\ disp.sync => disp.req \in pending
    /\ disp.pc = "launch" => ~ disp.sync
    /\ disp.pc = "wait" => disp.sync

\* An answer taken over belongs to a synchronous request that is still in the
\* table, or it has been handed over.
Kept ==
    \A q \in response :
      /\ info[q].sync
      /\ outcome[q] = "answered" \/ (outcome[q] = "open" /\ q \in pending)

IInv == TypeOK /\ Numbered /\ Table /\ InHand /\ Kept

-----------------------------------------------------------------------------
(* What the shared helpers return.                                         *)

ActionRows == [id : 0..issued, by : 0..issued, cap : Capabilities,
               status : {"none", "waiting", "active"}]

\* Finishing or activating an action leaves a row of the same type.
LEMMA ActionTyped ==
    ASSUME TypeOK, NEW id
    PROVE  FinishedAction(id) \in ActionRows /\ ActivatedAction(id) \in ActionRows
<1>1. action \in ActionRows /\ NoAction \in ActionRows
  BY CapabilityAssumption DEF TypeOK, ActionRows, NoAction, None
<1>2. FinishedAction(id) \in ActionRows
  BY <1>1 DEF FinishedAction
<1>3. ActivatedAction(id) \in ActionRows
  BY <1>1 DEF ActivatedAction, ActionRows
<1> QED
  BY <1>2, <1>3

\* Clearing busy keeps the type of the two fields.
LEMMA BusyTyped ==
    ASSUME TypeOK, NEW q \in Requests, ClearBusy(q)
    PROVE  /\ busyReq' \in [Capabilities -> 0..issued]
           /\ busyAct' \in [Capabilities -> 0..issued]
<1> USE DEF TypeOK
<1>1. 0 \in 0..issued
  BY CapabilityAssumption
<1>2. busyReq' \in [Capabilities -> 0..issued]
  BY <1>1 DEF ClearBusy, None
<1>3. busyAct' \in [Capabilities -> 0..issued]
  BY <1>1 DEF ClearBusy, None
<1> QED
  BY <1>2, <1>3

\* Settling open requests in some way keeps the numbering, and what is left in
\* the table is open if the settled ones have left it.
LEMMA Settling ==
    ASSUME TypeOK, Numbered, NEW Q, \A q \in Q : outcome[q] = "open",
           NEW o \in Statuses \ {"unused"}, Settle(Q, o), issued' = issued, info' = info
    PROVE  /\ outcome' \in [Requests -> Statuses]
           /\ Numbered'
           /\ \A q \in Requests : outcome'[q] = IF q \in Q THEN o ELSE outcome[q]
<1>1. outcome \in [Requests -> Statuses]
  BY DEF TypeOK
<1>2. /\ outcome' \in [Requests -> Statuses]
      /\ \A q \in Requests : outcome'[q] = IF q \in Q THEN o ELSE outcome[q]
  BY <1>1 DEF Settle
<1>3. Numbered'
  BY <1>2 DEF Numbered
<1> QED
  BY <1>2, <1>3

\* A request number is a number of an issued request.
LEMMA Ranges ==
    ASSUME TypeOK
    PROVE  /\ Requests = 1..MaxRequests /\ MaxRequests \in Nat
           /\ issued \in 0..MaxRequests /\ 1..issued \subseteq Requests
           /\ pending \subseteq Requests /\ response \subseteq Requests
           /\ results \subseteq Requests
BY CapabilityAssumption DEF TypeOK, Requests

\* The dispatcher's request is one.
LEMMA InHandIssued ==
    ASSUME TypeOK, InHand, disp.pc \in {"register", "send", "busy", "launch", "wait"}
    PROVE  disp.req \in Requests /\ disp.req \in 1..issued
<1>1. disp.req \in 0..issued
  BY DEF TypeOK
<1>2. disp.req # 0
  BY DEF InHand, None
<1> QED
  BY <1>1, <1>2, Ranges

\* Taking out the expired requests settles open requests only, and never the
\* one the dispatcher waits for.
LEMMA TakingOut ==
    ASSUME IInv, NEW p \in Pruners, TakeOutExpired(p),
           UNCHANGED <<issued, info, response, lapsed>>
    PROVE  /\ outcome' \in [Requests -> Statuses]
           /\ owed' \in [Pruners -> SUBSET (1..issued)]
           /\ pending' \subseteq pending
           /\ Numbered' /\ Kept'
           /\ \A q \in pending' : outcome'[q] = "open"
           /\ disp.pc = "register" => outcome'[disp.req] = outcome[disp.req]
           /\ disp.pc \in {"send", "busy", "wait"} /\ disp.sync => disp.req \in pending'
<1> USE DEF IInv
<1>1. \A q \in Expired : outcome[q] = "open"
  BY DEF Expired, Table
<1>2. /\ outcome' \in [Requests -> Statuses]
      /\ Numbered'
      /\ \A q \in Requests : outcome'[q] = IF q \in Expired THEN "expired" ELSE outcome[q]
  BY <1>1, Settling DEF TakeOutExpired, Statuses
<1>3. pending' = pending \ Expired
  BY DEF TakeOutExpired
<1>4. owed' \in [Pruners -> SUBSET (1..issued)]
  BY DEF TakeOutExpired, Expired, TypeOK
<1>5. \A q \in pending' : outcome'[q] = "open"
  BY <1>2, <1>3, Ranges DEF Table
<1>6. \A q \in pending : info[q].sync => q \notin lapsed
  BY DEF Table, InHand
<1>7. Kept'
  BY <1>2, <1>3, <1>6, Ranges DEF Kept, Expired
<1>8. disp.pc = "register" => outcome'[disp.req] = outcome[disp.req]
  BY <1>2, InHandIssued DEF InHand, Expired
<1>9. disp.pc \in {"send", "busy", "wait"} /\ disp.sync => disp.req \in pending'
  BY <1>3 DEF InHand, Expired
<1> QED
  BY <1>2, <1>3, <1>4, <1>5, <1>7, <1>8, <1>9

\* What the invariant says of the table and the dispatcher does not look at
\* cycles, at busy or at the ongoing action.
LEMMA Frame ==
    ASSUME Numbered, Table, InHand, Kept,
           UNCHANGED <<issued, info, pending, response, lapsed, disp, delivered,
                       accepting, outcome>>
    PROVE  Numbered' /\ Table' /\ InHand' /\ Kept'
BY DEF Numbered, Table, InHand, Kept

-----------------------------------------------------------------------------
(* Judgement cycles and time.                                              *)

LEMMA StartCycleKeepsIInv ==
    ASSUME IInv, StartCycle
    PROVE  IInv'
<1>1. TypeOK'
  BY CapabilityAssumption DEF IInv, TypeOK, StartCycle, NoCycle, None
<1> QED
  BY <1>1, Frame DEF IInv, StartCycle

LEMMA StartResultCycleKeepsIInv ==
    ASSUME IInv, NEW r \in Requests, StartResultCycle(r)
    PROVE  IInv'
<1>1. action' \in ActionRows
  BY ActionTyped DEF IInv, StartResultCycle
<1>2. cycle' \in [kind : {"none", "plain", "result"}, of : 0..issued, sent : 0..issued]
  BY CapabilityAssumption DEF IInv, TypeOK, StartResultCycle, None
<1>3. results' \subseteq 1..issued
  BY DEF IInv, TypeOK, StartResultCycle
<1>4. TypeOK'
  BY <1>1, <1>2, <1>3 DEF IInv, TypeOK, StartResultCycle, ActionRows
<1> QED
  BY <1>4, Frame DEF IInv, StartResultCycle

LEMMA EndCycleKeepsIInv ==
    ASSUME IInv, EndCycle
    PROVE  IInv'
<1>1. TypeOK'
  BY CapabilityAssumption DEF IInv, TypeOK, EndCycle, NoCycle, None
<1> QED
  BY <1>1, Frame DEF IInv, EndCycle

LEMMA FinishResultCycleKeepsIInv ==
    ASSUME IInv, FinishResultCycle
    PROVE  IInv'
<1>1. action' \in ActionRows
  BY ActionTyped DEF IInv, FinishResultCycle
<1>2. cycle' \in [kind : {"none", "plain", "result"}, of : 0..issued, sent : 0..issued]
  BY CapabilityAssumption DEF IInv, TypeOK, FinishResultCycle, NoCycle, None
<1>3. TypeOK'
  BY <1>1, <1>2 DEF IInv, TypeOK, FinishResultCycle, ActionRows
<1> QED
  BY <1>3, Frame DEF IInv, FinishResultCycle

LEMMA LapseKeepsIInv ==
    ASSUME IInv, NEW r \in Requests, Lapse(r)
    PROVE  IInv'
<1>1. r \in 1..issued
  BY Ranges DEF IInv, Numbered, Lapse
<1>2. lapsed' = lapsed \cup {r} /\ (r = disp.req => ~ disp.sync)
  BY DEF Lapse
<1>3. UNCHANGED <<issued, info, pending, response, disp, delivered, accepting, outcome>>
  BY DEF Lapse
<1>4. TypeOK'
  BY <1>1, <1>2 DEF IInv, TypeOK, Lapse
<1>5. InHand'
  BY <1>2, <1>3 DEF IInv, InHand
<1>6. Numbered' /\ Table' /\ Kept'
  BY <1>3 DEF IInv, Numbered, Table, Kept
<1> QED
  BY <1>4, <1>5, <1>6 DEF IInv

-----------------------------------------------------------------------------
(* Dispatch.                                                               *)

LEMMA StartDispatchKeepsIInv ==
    ASSUME IInv, NEW c \in Capabilities, NEW sync \in BOOLEAN, StartDispatch(c, sync)
    PROVE  IInv'
<1>1. /\ TakeOutExpired("dispatcher") /\ "dispatcher" \in Pruners
      /\ UNCHANGED <<issued, info, response, lapsed, delivered, accepting>>
      /\ issued < MaxRequests /\ disp.pc = "idle"
      /\ disp' = [pc |-> "check", cap |-> c, sync |-> sync, req |-> None]
  BY DEF StartDispatch, Pruners
<1>2. /\ outcome' \in [Requests -> Statuses]
      /\ owed' \in [Pruners -> SUBSET (1..issued)]
      /\ pending' \subseteq pending
      /\ Numbered' /\ Kept'
      /\ \A q \in pending' : outcome'[q] = "open"
  BY <1>1, TakingOut
<1>3. TypeOK'
  <2>1. disp' \in [pc : {"idle", "check", "begin", "register", "send", "busy",
                         "launch", "wait"},
                   cap : Capabilities, sync : BOOLEAN, req : 0..issued]
    BY <1>1, Ranges DEF IInv, None
  <2>2. UNCHANGED <<busyReq, busyAct, action, cycle, results, crashes>>
    BY DEF StartDispatch
  <2> QED
    BY <1>1, <1>2, <2>1, <2>2 DEF IInv, TypeOK
<1>4. Table'
  BY <1>1, <1>2 DEF IInv, Table
<1>5. InHand'
  BY <1>1 DEF InHand
<1> QED
  BY <1>2, <1>3, <1>4, <1>5 DEF IInv

LEMMA RefuseKeepsIInv ==
    ASSUME IInv, Refuse
    PROVE  IInv'
<1>1. /\ disp.pc \in {"check", "begin"} /\ disp' = NotDispatching
      /\ UNCHANGED <<issued, info, pending, response, lapsed, delivered, accepting, outcome>>
  BY DEF Refuse
<1>2. TypeOK'
  BY CapabilityAssumption DEF IInv, TypeOK, Refuse, NotDispatching, None
<1>3. Numbered' /\ Table' /\ InHand' /\ Kept'
  BY <1>1 DEF IInv, Numbered, Table, InHand, Kept, NotDispatching
<1> QED
  BY <1>2, <1>3 DEF IInv

LEMMA CheckKeepsIInv ==
    ASSUME IInv, Check
    PROVE  IInv'
<1>1. /\ disp.pc = "check" /\ disp' = [disp EXCEPT !.pc = "begin"]
      /\ UNCHANGED <<issued, info, pending, response, lapsed, delivered, accepting, outcome>>
  BY DEF Check
<1>2. TypeOK'
  BY DEF IInv, TypeOK, Check
<1>3. disp'.pc = "begin" /\ disp'.req = disp.req
  BY <1>1 DEF IInv, TypeOK
<1>4. Numbered' /\ Table' /\ InHand' /\ Kept'
  BY <1>1, <1>3 DEF IInv, Numbered, Table, InHand, Kept
<1> QED
  BY <1>2, <1>4 DEF IInv

LEMMA BeginKeepsIInv ==
    ASSUME IInv, Begin
    PROVE  IInv'
<1> DEFINE q == issued + 1
           id == IF disp.sync THEN None ELSE IF ActionLive THEN action.id ELSE q
<1>1. /\ disp.pc = "begin" /\ issued' = q
      /\ info' = [info EXCEPT ![q] = [cap |-> disp.cap, sync |-> disp.sync, action |-> id]]
      /\ action' = IF disp.sync THEN action
                   ELSE [id |-> id, by |-> q, cap |-> disp.cap, status |-> "waiting"]
      /\ disp' = [disp EXCEPT !.pc = "register", !.req = q]
      /\ outcome' = [outcome EXCEPT ![q] = "open"]
      /\ UNCHANGED <<pending, response, busyReq, busyAct, lapsed, cycle,
                     delivered, accepting, results, owed, crashes>>
  BY DEF Begin
<1>2. /\ q \in Requests /\ q \in 0..MaxRequests /\ q \in Nat
      /\ 0..issued \subseteq 0..q /\ 1..issued \subseteq 1..q /\ q \notin 1..issued
  BY <1>1, Ranges DEF IInv, InHand
<1>3. id \in 0..q /\ id \in 0..MaxRequests
  <2>1. action.id \in 0..issued
    BY DEF IInv, TypeOK
  <2>2. id \in {0, action.id, q}
    BY DEF None
  <2>3. 0..q \subseteq 0..MaxRequests /\ 0 \in 0..q /\ q \in 0..q
    BY <1>2, Ranges DEF IInv
  <2> QED
    BY <1>2, <2>1, <2>2, <2>3
<1> HIDE DEF id
<1>4. /\ info' \in [Requests -> [cap : Capabilities, sync : BOOLEAN, action : 0..MaxRequests]]
      /\ info'[q].sync = disp.sync /\ info'[q].action = id
      /\ \A r \in Requests \ {q} : info'[r] = info[r]
  BY <1>1, <1>2, <1>3 DEF IInv, TypeOK
<1>5. /\ outcome' \in [Requests -> Statuses]
      /\ outcome'[q] = "open"
      /\ \A r \in Requests \ {q} : outcome'[r] = outcome[r]
  BY <1>1, <1>2 DEF IInv, TypeOK, Statuses
<1>6. /\ disp' \in [pc : {"idle", "check", "begin", "register", "send", "busy",
                         "launch", "wait"},
                    cap : Capabilities, sync : BOOLEAN, req : 0..q]
      /\ disp'.pc = "register" /\ disp'.req = q /\ disp'.sync = disp.sync
  <2>1. disp \in [pc : {"idle", "check", "begin", "register", "send", "busy",
                        "launch", "wait"},
                  cap : Capabilities, sync : BOOLEAN, req : 0..q]
    BY <1>2 DEF IInv, TypeOK
  <2>2. q \in 0..q
    BY <1>2
  <2> HIDE DEF q
  <2> QED
    BY <1>1, <2>1, <2>2
<1>7. q \notin pending \cup response \cup lapsed \cup delivered \cup accepting
  BY <1>2 DEF IInv, TypeOK
<1> HIDE DEF q
<1>8. TypeOK'
  <2>1. issued' \in 0..MaxRequests
    BY <1>1, <1>2
  <2>2. action' \in [id : 0..q, by : 0..q, cap : Capabilities,
                     status : {"none", "waiting", "active"}]
    <3>1. action \in [id : 0..q, by : 0..q, cap : Capabilities,
                      status : {"none", "waiting", "active"}]
      BY <1>2 DEF IInv, TypeOK
    <3>2. q \in 0..q /\ disp.cap \in Capabilities
      BY <1>2 DEF IInv, TypeOK
    <3> QED
      BY <1>1, <1>3, <3>1, <3>2
  <2>3. /\ busyReq \in [Capabilities -> 0..q] /\ busyAct \in [Capabilities -> 0..q]
        /\ owed \in [Pruners -> SUBSET (1..q)]
    BY <1>2 DEF IInv, TypeOK
  <2>4. cycle \in [kind : {"none", "plain", "result"}, of : 0..q, sent : 0..q]
    BY <1>2 DEF IInv, TypeOK
  <2>5. /\ pending \subseteq 1..q /\ response \subseteq 1..q /\ lapsed \subseteq 1..q
        /\ delivered \subseteq 1..q /\ accepting \subseteq 1..q /\ results \subseteq 1..q
        /\ crashes \in 0..MaxCrashes
    BY <1>2 DEF IInv, TypeOK
  <2> QED
    BY <1>1, <1>4, <1>5, <1>6, <2>1, <2>2, <2>3, <2>4, <2>5 DEF TypeOK
<1>9. Numbered'
  <2>1. issued < q /\ \A r \in Requests : r # q => (r > issued <=> r > q)
    BY <1>2, Ranges DEF IInv, q
  <2>2. \A r \in Requests : outcome'[r] = "unused" <=> r > q
    BY <1>2, <1>5, <2>1, Ranges DEF IInv, Numbered
  <2>3. \A r \in Requests : info'[r].action <= q
    <3>1. \A r \in Requests : info[r].action <= issued /\ info[r].action \in Nat
      BY Ranges DEF IInv, Numbered, TypeOK
    <3> QED
      BY <1>2, <1>3, <1>4, <2>1, <3>1, Ranges DEF IInv
  <2> QED
    BY <1>1, <2>2, <2>3 DEF Numbered
<1>10. \A r \in pending \cup response : r \in Requests \ {q}
  BY <1>7, Ranges DEF IInv
<1>11. Table' /\ Kept'
  BY <1>1, <1>4, <1>5, <1>10 DEF IInv, Table, Kept
<1>12. InHand'
  <2>1. q # None
    BY <1>2, Ranges DEF IInv, None, q
  <2>2. q \notin pending' \cup delivered' \cup accepting' \cup response' \cup lapsed'
    BY <1>1, <1>7
  <2> QED
    BY <1>4, <1>5, <1>6, <2>1, <2>2 DEF InHand
<1> QED
  BY <1>8, <1>9, <1>11, <1>12 DEF IInv

LEMMA RegisterKeepsIInv ==
    ASSUME IInv, Register
    PROVE  IInv'
<1>1. /\ disp.pc = "register" /\ pending' = pending \cup {disp.req}
      /\ UNCHANGED <<issued, info, response, lapsed, delivered, accepting, outcome>>
  BY DEF Register
<1>2. /\ disp' \in [pc : {"idle", "check", "begin", "register", "send", "busy",
                          "launch", "wait"},
                    cap : Capabilities, sync : BOOLEAN, req : 0..issued]
      /\ disp'.pc \in {"send", "busy"} /\ disp'.req = disp.req /\ disp'.sync = disp.sync
  BY DEF IInv, TypeOK, Register
<1>3. disp.req \in 1..issued
  BY <1>1, InHandIssued DEF IInv
<1>4. TypeOK'
  BY <1>2, <1>3 DEF IInv, TypeOK, Register
<1>5. Numbered' /\ Kept'
  BY <1>1 DEF IInv, Numbered, Kept
<1>6. Table'
  BY <1>1, <1>2 DEF IInv, Table, InHand
<1>7. InHand'
  BY <1>1, <1>2 DEF IInv, InHand
<1> QED
  BY <1>4, <1>5, <1>6, <1>7 DEF IInv

LEMMA SendKeepsIInv ==
    ASSUME IInv, Send
    PROVE  IInv'
<1>1. /\ disp.pc = "send" /\ delivered' = delivered \cup {disp.req}
      /\ UNCHANGED <<issued, info, pending, response, lapsed, accepting, outcome>>
  BY DEF Send
<1>2. /\ disp' \in [pc : {"idle", "check", "begin", "register", "send", "busy",
                          "launch", "wait"},
                    cap : Capabilities, sync : BOOLEAN, req : 0..issued]
      /\ disp'.pc = "busy" /\ disp'.req = disp.req /\ disp'.sync = disp.sync
  BY DEF IInv, TypeOK, Send
<1>3. disp.req \in 1..issued
  BY <1>1, InHandIssued DEF IInv
<1>4. TypeOK'
  BY <1>2, <1>3 DEF IInv, TypeOK, Send
<1>5. Numbered' /\ Table' /\ Kept'
  BY <1>1, <1>2 DEF IInv, Numbered, Table, Kept
<1>6. InHand'
  BY <1>1, <1>2 DEF IInv, InHand
<1> QED
  BY <1>4, <1>5, <1>6 DEF IInv

\* After these the dispatcher has nothing in hand.
LEMMA HandEmpty ==
    ASSUME disp' = NotDispatching
    PROVE  InHand'
BY DEF InHand, NotDispatching

LEMMA SendFailsKeepsIInv ==
    ASSUME IInv, SendFails
    PROVE  IInv'
<1>1. /\ disp.pc = "send" /\ pending' = pending \ {disp.req}
      /\ ClearBusy(disp.req) /\ Settle({disp.req} \cap pending, "failed")
      /\ disp' = NotDispatching
      /\ UNCHANGED <<issued, info, response, lapsed, delivered, accepting>>
  BY DEF SendFails
<1>2. disp.req \in Requests /\ disp.req \notin response
  BY <1>1, InHandIssued DEF IInv, InHand
<1>3. /\ outcome' \in [Requests -> Statuses] /\ Numbered'
      /\ \A q \in Requests :
           outcome'[q] = IF q \in {disp.req} \cap pending THEN "failed" ELSE outcome[q]
  BY <1>1, Settling DEF IInv, Table, Statuses
<1>4. /\ busyReq' \in [Capabilities -> 0..issued]
      /\ busyAct' \in [Capabilities -> 0..issued]
  BY <1>1, <1>2, BusyTyped DEF IInv
<1>5. action' \in ActionRows
  BY ActionTyped DEF IInv, SendFails
<1>6. TypeOK'
  <2>1. disp' \in [pc : {"idle", "check", "begin", "register", "send", "busy",
                         "launch", "wait"},
                   cap : Capabilities, sync : BOOLEAN, req : 0..issued]
    BY <1>1, CapabilityAssumption, Ranges DEF IInv, NotDispatching, None
  <2>2. UNCHANGED <<cycle, results, owed, crashes>>
    BY DEF SendFails
  <2> QED
    BY <1>1, <1>3, <1>4, <1>5, <2>1, <2>2 DEF IInv, TypeOK, ActionRows
<1>7. \A q \in pending' : outcome'[q] = "open" /\ ~ info'[q].sync
  BY <1>1, <1>3, Ranges DEF IInv, Table
<1>8. Table' /\ Kept'
  BY <1>1, <1>2, <1>3, <1>7, Ranges DEF IInv, Table, Kept
<1> QED
  BY <1>1, <1>3, <1>6, <1>8, HandEmpty DEF IInv

LEMMA SetBusyKeepsIInv ==
    ASSUME IInv, SetBusy
    PROVE  IInv'
<1>1. /\ disp.pc = "busy"
      /\ UNCHANGED <<issued, info, pending, response, lapsed, delivered, accepting, outcome>>
  BY DEF SetBusy
<1>2. disp.req \in Requests /\ disp.req \in 1..issued /\ info[disp.req].action \in 0..issued
  <2>1. disp.req \in Requests /\ disp.req \in 1..issued
    BY <1>1, InHandIssued DEF IInv
  <2>2. info[disp.req].action \in 0..MaxRequests
    BY <2>1 DEF IInv, TypeOK
  <2>3. info[disp.req].action <= issued
    BY <2>1 DEF IInv, Numbered
  <2>4. issued \in Nat /\ MaxRequests \in Nat
    BY Ranges DEF IInv
  <2> QED
    BY <2>1, <2>2, <2>3, <2>4
<1>3. /\ busyReq' \in [Capabilities -> 0..issued]
      /\ busyAct' \in [Capabilities -> 0..issued]
  <2>1. disp.req \in 0..issued
    BY DEF IInv, TypeOK
  <2> QED
    BY <1>2, <2>1 DEF IInv, TypeOK, SetBusy
<1>4. /\ \/ disp.sync /\ disp' = [disp EXCEPT !.pc = "wait"]
         \/ ~ disp.sync /\ disp' = [disp EXCEPT !.pc = "launch"]
         \/ ~ disp.sync /\ disp' = NotDispatching
      /\ cycle' \in {cycle, [cycle EXCEPT !.sent = disp.req]}
  BY DEF SetBusy
<1>5. TypeOK'
  <2>1. disp' \in [pc : {"idle", "check", "begin", "register", "send", "busy",
                         "launch", "wait"},
                   cap : Capabilities, sync : BOOLEAN, req : 0..issued]
    <3>1. NotDispatching \in [pc : {"idle", "check", "begin", "register", "send", "busy",
                                    "launch", "wait"},
                              cap : Capabilities, sync : BOOLEAN, req : 0..issued]
      BY CapabilityAssumption, Ranges DEF IInv, NotDispatching, None
    <3> QED
      BY <1>4, <3>1 DEF IInv, TypeOK
  <2>2. cycle' \in [kind : {"none", "plain", "result"}, of : 0..issued, sent : 0..issued]
    <3>1. disp.req \in 0..issued
      BY DEF IInv, TypeOK
    <3> QED
      BY <1>4, <3>1 DEF IInv, TypeOK
  <2>3. UNCHANGED <<action, results, owed, crashes>>
    BY DEF SetBusy
  <2> QED
    BY <1>1, <1>3, <2>1, <2>2, <2>3 DEF IInv, TypeOK
<1>6. Numbered' /\ Kept'
  BY <1>1 DEF IInv, Numbered, Kept
<1>7. info[disp.req].sync = disp.sync
  BY <1>1 DEF IInv, InHand
<1>8. CASE disp.sync /\ disp' = [disp EXCEPT !.pc = "wait"]
  <2>1. disp'.pc = "wait" /\ disp'.req = disp.req /\ disp'.sync = disp.sync
    BY <1>8 DEF IInv, TypeOK
  <2>2. Table'
    BY <1>1, <2>1 DEF IInv, Table
  <2>3. InHand'
    <3>1. disp.req \in pending /\ disp.req # None /\ disp.req \notin lapsed
      BY <1>1, <1>8 DEF IInv, InHand
    <3>2. disp.sync
      BY <1>8
    <3> QED
      BY <1>1, <1>7, <2>1, <3>1, <3>2 DEF InHand
  <2> QED
    BY <1>5, <1>6, <2>2, <2>3 DEF IInv
<1>9. CASE ~ disp.sync /\ disp' = [disp EXCEPT !.pc = "launch"]
  <2>1. disp'.pc = "launch" /\ disp'.req = disp.req /\ disp'.sync = disp.sync
    BY <1>9 DEF IInv, TypeOK
  <2>2. Table'
    BY <1>1, <1>7, <1>9 DEF IInv, Table
  <2>3. InHand'
    BY <1>1, <1>9, <2>1 DEF IInv, InHand
  <2> QED
    BY <1>5, <1>6, <2>2, <2>3 DEF IInv
<1>10. CASE ~ disp.sync /\ disp' = NotDispatching
  <2>1. Table'
    BY <1>1, <1>7, <1>10 DEF IInv, Table
  <2> QED
    BY <1>5, <1>6, <1>10, <2>1, HandEmpty DEF IInv
<1> QED
  BY <1>4, <1>8, <1>9, <1>10

LEMMA LaunchKeepsIInv ==
    ASSUME IInv, Launch
    PROVE  IInv'
<1>1. /\ disp.pc = "launch" /\ delivered' = delivered \cup {disp.req}
      /\ disp' = NotDispatching /\ cycle' = [cycle EXCEPT !.sent = disp.req]
      /\ UNCHANGED <<issued, info, pending, response, lapsed, accepting, outcome>>
  BY DEF Launch
<1>2. disp.req \in 1..issued
  BY <1>1, InHandIssued DEF IInv
<1>3. TypeOK'
  <2>1. disp' \in [pc : {"idle", "check", "begin", "register", "send", "busy",
                         "launch", "wait"},
                   cap : Capabilities, sync : BOOLEAN, req : 0..issued]
    BY <1>1, CapabilityAssumption, Ranges DEF IInv, NotDispatching, None
  <2>2. cycle' \in [kind : {"none", "plain", "result"}, of : 0..issued, sent : 0..issued]
    BY <1>1 DEF IInv, TypeOK
  <2>3. UNCHANGED <<busyReq, busyAct, action, results, owed, crashes>>
    BY DEF Launch
  <2> QED
    BY <1>1, <1>2, <2>1, <2>2, <2>3 DEF IInv, TypeOK
<1>4. Numbered' /\ Table' /\ Kept'
  BY <1>1 DEF IInv, Numbered, Table, Kept
<1> QED
  BY <1>1, <1>3, <1>4, HandEmpty DEF IInv

\* Both ends of a synchronous wait take the request out of the table.
LEMMA WaitEnds ==
    ASSUME IInv, disp.pc = "wait", pending' = pending \ {disp.req},
           NEW o \in Statuses \ {"unused"}, Settle({disp.req}, o),
           o = "answered" \/ disp.req \notin response,
           disp' = NotDispatching, UNCHANGED <<issued, info, response>>
    PROVE  /\ outcome' \in [Requests -> Statuses]
           /\ Numbered' /\ Table' /\ InHand' /\ Kept'
<1>1. disp.req \in pending /\ outcome[disp.req] = "open"
  BY DEF IInv, InHand, Table
<1>2. /\ outcome' \in [Requests -> Statuses] /\ Numbered'
      /\ \A q \in Requests : outcome'[q] = IF q \in {disp.req} THEN o ELSE outcome[q]
  BY <1>1, Settling DEF IInv
<1>3. \A q \in pending' : outcome'[q] = "open" /\ ~ info'[q].sync
  BY <1>2, Ranges DEF IInv, Table
<1>4. Table' /\ Kept'
  BY <1>2, <1>3, Ranges DEF IInv, Table, Kept
<1> QED
  BY <1>2, <1>4, HandEmpty

LEMMA CollectKeepsIInv ==
    ASSUME IInv, Collect
    PROVE  IInv'
<1>1. /\ outcome' \in [Requests -> Statuses]
      /\ Numbered' /\ Table' /\ InHand' /\ Kept'
  BY WaitEnds DEF Collect, Statuses
<1>2. disp' \in [pc : {"idle", "check", "begin", "register", "send", "busy",
                       "launch", "wait"},
                 cap : Capabilities, sync : BOOLEAN, req : 0..issued]
  BY CapabilityAssumption, Ranges DEF IInv, Collect, NotDispatching, None
<1>3. TypeOK'
  BY <1>1, <1>2 DEF IInv, TypeOK, Collect
<1> QED
  BY <1>1, <1>3 DEF IInv

LEMMA GiveUpKeepsIInv ==
    ASSUME IInv, GiveUp
    PROVE  IInv'
<1>1. /\ outcome' \in [Requests -> Statuses]
      /\ Numbered' /\ Table' /\ InHand' /\ Kept'
  BY WaitEnds DEF GiveUp, Statuses
<1>2. disp' \in [pc : {"idle", "check", "begin", "register", "send", "busy",
                       "launch", "wait"},
                 cap : Capabilities, sync : BOOLEAN, req : 0..issued]
  BY CapabilityAssumption, Ranges DEF IInv, GiveUp, NotDispatching, None
<1>3. /\ busyReq' \in [Capabilities -> 0..issued]
      /\ busyAct' \in [Capabilities -> 0..issued]
  BY InHandIssued, BusyTyped DEF IInv, GiveUp
<1>4. TypeOK'
  BY <1>1, <1>2, <1>3 DEF IInv, TypeOK, GiveUp
<1> QED
  BY <1>1, <1>4 DEF IInv

-----------------------------------------------------------------------------
(* Results, pruning and the end of the process.                            *)

LEMMA ReceiveKeepsIInv ==
    ASSUME IInv, NEW r \in Requests, Receive(r)
    PROVE  IInv'
<1>1. /\ r \in delivered /\ accepting' = accepting \cup {r} /\ delivered' \subseteq delivered
      /\ TakeOutExpired("acceptor") /\ "acceptor" \in Pruners
      /\ UNCHANGED <<issued, info, response, lapsed, disp>>
  BY DEF Receive, Pruners
<1>2. /\ outcome' \in [Requests -> Statuses]
      /\ owed' \in [Pruners -> SUBSET (1..issued)]
      /\ pending' \subseteq pending
      /\ Numbered' /\ Kept'
      /\ \A q \in pending' : outcome'[q] = "open"
      /\ disp.pc = "register" => outcome'[disp.req] = outcome[disp.req]
      /\ disp.pc \in {"send", "busy", "wait"} /\ disp.sync => disp.req \in pending'
  BY <1>1, TakingOut
<1>3. TypeOK'
  <2>1. UNCHANGED <<busyReq, busyAct, action, cycle, results, crashes>>
    BY DEF Receive
  <2> QED
    BY <1>1, <1>2, <2>1 DEF IInv, TypeOK
<1>4. Table'
  BY <1>1, <1>2 DEF IInv, Table
<1>5. InHand'
  BY <1>1, <1>2 DEF IInv, InHand
<1> QED
  BY <1>2, <1>3, <1>4, <1>5 DEF IInv

LEMMA AcceptKeepsIInv ==
    ASSUME IInv, NEW r \in Requests, Accept(r)
    PROVE  IInv'
<1>1. /\ r \in accepting /\ accepting' = accepting \ {r} /\ r \in pending /\ ClearBusy(r)
      /\ UNCHANGED <<issued, info, action, lapsed, cycle, disp, delivered, owed, crashes>>
  BY DEF Accept
<1>2. /\ busyReq' \in [Capabilities -> 0..issued]
      /\ busyAct' \in [Capabilities -> 0..issued]
  BY <1>1, BusyTyped DEF IInv
<1>3. CASE info[r].sync
  <2>1. response' = response \cup {r} /\ UNCHANGED <<pending, results, outcome>>
    BY <1>3 DEF Accept
  <2>2. TypeOK'
    BY <1>1, <1>2, <2>1 DEF IInv, TypeOK
  <2>3. Numbered' /\ Table'
    BY <1>1, <2>1 DEF IInv, Numbered, Table
  <2>4. Kept'
    BY <1>1, <1>3, <2>1 DEF IInv, Kept, Table
  <2>5. InHand'
    BY <1>1, <2>1 DEF IInv, InHand
  <2> QED
    BY <2>2, <2>3, <2>4, <2>5 DEF IInv
<1>4. CASE ~ info[r].sync
  <2>1. /\ pending' = pending \ {r} /\ results' = results \cup {r}
        /\ Settle({r}, "answered") /\ UNCHANGED response
    BY <1>4 DEF Accept
  <2>2. /\ outcome' \in [Requests -> Statuses] /\ Numbered'
        /\ \A q \in Requests : outcome'[q] = IF q \in {r} THEN "answered" ELSE outcome[q]
    BY <1>1, <2>1, Settling DEF IInv, Table, Statuses
  <2>3. TypeOK'
    BY <1>1, <1>2, <2>1, <2>2 DEF IInv, TypeOK
  <2>4. Table' /\ Kept'
    BY <1>1, <1>4, <2>1, <2>2, Ranges DEF IInv, Table, Kept
  <2>5. disp.pc \in {"send", "busy", "wait"} /\ disp.sync => disp.req # r
    BY <1>4 DEF IInv, InHand
  <2>6. disp.pc = "register" => outcome'[disp.req] = outcome[disp.req]
    BY <1>1, <2>2, InHandIssued DEF IInv, InHand
  <2>7. InHand'
    BY <1>1, <2>1, <2>5, <2>6 DEF IInv, InHand
  <2> QED
    BY <2>2, <2>3, <2>4, <2>7 DEF IInv
<1> QED
  BY <1>3, <1>4

LEMMA IgnoreKeepsIInv ==
    ASSUME IInv, NEW r \in Requests, Ignore(r)
    PROVE  IInv'
<1>1. /\ accepting' = accepting \ {r}
      /\ UNCHANGED <<issued, info, pending, response, lapsed, disp, delivered, outcome>>
  BY DEF Ignore
<1>2. TypeOK'
  BY DEF IInv, TypeOK, Ignore
<1>3. Numbered' /\ Table' /\ InHand' /\ Kept'
  BY <1>1 DEF IInv, Numbered, Table, InHand, Kept
<1> QED
  BY <1>2, <1>3 DEF IInv

LEMMA RunnerRejectedKeepsIInv ==
    ASSUME IInv, NEW r \in Requests, RunnerRejected(r)
    PROVE  IInv'
<1>1. /\ delivered' = delivered \ {r} /\ ClearBusy(r)
      /\ UNCHANGED <<issued, info, pending, response, lapsed, disp, accepting, outcome>>
  BY DEF RunnerRejected
<1>2. /\ busyReq' \in [Capabilities -> 0..issued]
      /\ busyAct' \in [Capabilities -> 0..issued]
  BY <1>1, BusyTyped DEF IInv
<1>3. TypeOK'
  BY <1>1, <1>2 DEF IInv, TypeOK, RunnerRejected
<1>4. Numbered' /\ Table' /\ InHand' /\ Kept'
  BY <1>1 DEF IInv, Numbered, Table, InHand, Kept
<1> QED
  BY <1>3, <1>4 DEF IInv

LEMMA PruneKeepsIInv ==
    ASSUME IInv, Prune
    PROVE  IInv'
<1>1. /\ TakeOutExpired("scheduler") /\ "scheduler" \in Pruners
      /\ UNCHANGED <<issued, info, response, lapsed, disp, delivered, accepting>>
  BY DEF Prune, Pruners
<1>2. /\ outcome' \in [Requests -> Statuses]
      /\ owed' \in [Pruners -> SUBSET (1..issued)]
      /\ pending' \subseteq pending
      /\ Numbered' /\ Kept'
      /\ \A q \in pending' : outcome'[q] = "open"
      /\ disp.pc = "register" => outcome'[disp.req] = outcome[disp.req]
      /\ disp.pc \in {"send", "busy", "wait"} /\ disp.sync => disp.req \in pending'
  BY <1>1, TakingOut
<1>3. TypeOK'
  <2>1. UNCHANGED <<busyReq, busyAct, action, cycle, results, crashes>>
    BY DEF Prune
  <2> QED
    BY <1>1, <1>2, <2>1 DEF IInv, TypeOK
<1>4. Table'
  BY <1>1, <1>2 DEF IInv, Table
<1>5. InHand'
  BY <1>1, <1>2 DEF IInv, InHand
<1> QED
  BY <1>2, <1>3, <1>4, <1>5 DEF IInv

LEMMA CleanUpKeepsIInv ==
    ASSUME IInv, NEW p \in Pruners, NEW r \in Requests, CleanUp(p, r)
    PROVE  IInv'
<1>1. /\ owed' = [owed EXCEPT ![p] = @ \ {r}] /\ ClearBusy(r)
      /\ action' = FinishedAction(info[r].action)
  BY DEF CleanUp
<1>2. /\ busyReq' \in [Capabilities -> 0..issued]
      /\ busyAct' \in [Capabilities -> 0..issued]
  BY <1>1, BusyTyped DEF IInv
<1>3. action' \in ActionRows
  BY <1>1, ActionTyped DEF IInv
<1>4. owed' \in [Pruners -> SUBSET (1..issued)]
  BY <1>1 DEF IInv, TypeOK
<1>5. UNCHANGED <<issued, info, pending, response, lapsed, cycle, disp,
                  delivered, accepting, results, crashes, outcome>>
  BY DEF CleanUp
<1>6. TypeOK'
  BY <1>2, <1>3, <1>4, <1>5 DEF IInv, TypeOK, ActionRows
<1> QED
  BY <1>5, <1>6, Frame DEF IInv

LEMMA RestartKeepsIInv ==
    ASSUME IInv, Restart
    PROVE  IInv'
<1>1. /\ crashes < MaxCrashes /\ crashes' = crashes + 1
      /\ pending' = {} /\ response' = {} /\ accepting' = {} /\ results' = {}
      /\ delivered' \subseteq delivered
      /\ busyReq' = [c \in Capabilities |-> None] /\ busyAct' = [c \in Capabilities |-> None]
      /\ action' \in {NoAction, action} /\ cycle' = NoCycle /\ disp' = NotDispatching
      /\ owed' = [p \in Pruners |-> {}]
      /\ Settle({q \in Requests : outcome[q] = "open"}, "lost")
      /\ UNCHANGED <<issued, info, lapsed>>
  BY DEF Restart
<1>2. outcome' \in [Requests -> Statuses] /\ Numbered'
  BY <1>1, Settling DEF IInv, Statuses
<1>3. TypeOK'
  <2>1. 0 \in 0..issued /\ crashes' \in 0..MaxCrashes
    BY <1>1, CapabilityAssumption, Ranges DEF IInv, TypeOK
  <2>2. /\ busyReq' \in [Capabilities -> 0..issued] /\ busyAct' \in [Capabilities -> 0..issued]
        /\ owed' \in [Pruners -> SUBSET (1..issued)]
    BY <1>1, <2>1 DEF None
  <2>3. action' \in ActionRows
    BY <1>1, <2>1, CapabilityAssumption DEF IInv, TypeOK, ActionRows, NoAction, None
  <2>4. cycle' \in [kind : {"none", "plain", "result"}, of : 0..issued, sent : 0..issued]
    BY <1>1, <2>1 DEF NoCycle, None
  <2>5. disp' \in [pc : {"idle", "check", "begin", "register", "send", "busy",
                         "launch", "wait"},
                   cap : Capabilities, sync : BOOLEAN, req : 0..issued]
    BY <1>1, <2>1, CapabilityAssumption DEF NotDispatching, None
  <2> QED
    BY <1>1, <1>2, <2>1, <2>2, <2>3, <2>4, <2>5 DEF IInv, TypeOK, ActionRows
<1>4. Table' /\ Kept'
  BY <1>1 DEF Table, Kept
<1> QED
  BY <1>1, <1>2, <1>3, <1>4, HandEmpty DEF IInv

-----------------------------------------------------------------------------
(* The invariant.                                                          *)

LEMMA InitIInv == Init => IInv
<1> SUFFICES ASSUME Init PROVE IInv
  OBVIOUS
<1>1. TypeOK
  BY CapabilityAssumption DEF Init, TypeOK, Requests, None, NoInfo, NoAction, NoCycle,
     NotDispatching, Statuses
<1>2. Numbered
  BY CapabilityAssumption DEF Init, Numbered, Requests, NoInfo, None
<1>3. Table /\ InHand /\ Kept
  BY DEF Init, Table, InHand, Kept, NotDispatching
<1> QED
  BY <1>1, <1>2, <1>3 DEF IInv

LEMMA NextKeepsIInv == IInv /\ [Next]_vars => IInv'
<1> SUFFICES ASSUME IInv, [Next]_vars PROVE IInv'
  OBVIOUS
<1>1. CASE StartCycle \/ EndCycle \/ FinishResultCycle
  BY <1>1, StartCycleKeepsIInv, EndCycleKeepsIInv, FinishResultCycleKeepsIInv
<1>2. CASE Refuse \/ Check \/ Begin \/ Register
  BY <1>2, RefuseKeepsIInv, CheckKeepsIInv, BeginKeepsIInv, RegisterKeepsIInv
<1>3. CASE Send \/ SendFails \/ SetBusy \/ Launch
  BY <1>3, SendKeepsIInv, SendFailsKeepsIInv, SetBusyKeepsIInv, LaunchKeepsIInv
<1>4. CASE Collect \/ GiveUp \/ Prune \/ Restart
  BY <1>4, CollectKeepsIInv, GiveUpKeepsIInv, PruneKeepsIInv, RestartKeepsIInv
<1>5. CASE \E c \in Capabilities, sync \in BOOLEAN : StartDispatch(c, sync)
  BY <1>5, StartDispatchKeepsIInv
<1>6. CASE \E q \in Requests : StartResultCycle(q) \/ Lapse(q) \/ Receive(q)
  BY <1>6, StartResultCycleKeepsIInv, LapseKeepsIInv, ReceiveKeepsIInv
<1>7. CASE \E q \in Requests : Accept(q) \/ Ignore(q) \/ RunnerRejected(q)
  BY <1>7, AcceptKeepsIInv, IgnoreKeepsIInv, RunnerRejectedKeepsIInv
<1>8. CASE \E p \in Pruners, q \in Requests : CleanUp(p, q)
  BY <1>8, CleanUpKeepsIInv
<1>9. CASE UNCHANGED vars
  <2>1. TypeOK'
    BY <1>9 DEF IInv, TypeOK, vars
  <2> QED
    BY <1>9, <2>1, Frame DEF IInv, vars
<1> QED
  BY <1>1, <1>2, <1>3, <1>4, <1>5, <1>6, <1>7, <1>8, <1>9 DEF Next

LEMMA Invariance == Spec => []IInv
  BY InitIInv, NextKeepsIInv, PTL DEF Spec

\* The state keeps its types: the table, the busy fields and the ongoing action
\* only ever hold requests that were issued.
THEOREM TypeCorrect == Spec => []TypeOK
<1>1. IInv => TypeOK
  BY DEF IInv
<1> QED
  BY Invariance, <1>1, PTL

\* A result taken over for a cycle that waits is handed to it: neither the
\* timeout of the wait, nor a prune, nor a failed send settles that request.
THEOREM SyncAnswer == Spec => []SyncAnswerKept
<1>1. IInv => SyncAnswerKept
  BY DEF IInv, Kept, SyncAnswerKept
<1> QED
  BY Invariance, <1>1, PTL

-----------------------------------------------------------------------------
(* The refinement.                                                         *)

\* Settling open requests is a step of RequestLifecycle, or nothing happens.
LEMMA SettlingSteps ==
    ASSUME TypeOK, NEW Q \in SUBSET Requests, \A q \in Q : outcome[q] = "open",
           NEW o \in Lifecycle!Settled, Settle(Q, o)
    PROVE  [Lifecycle!Next]_outcome
<1>1. CASE Q = {}
  <2>1. outcome \in [Requests -> Statuses]
    BY DEF TypeOK
  <2>2. outcome' = outcome
    BY <1>1, <2>1 DEF Settle
  <2> QED
    BY <2>2
<1>2. CASE Q # {}
  BY <1>2 DEF Settle, Lifecycle!Settle, Lifecycle!Next
<1> QED
  BY <1>1, <1>2

\* Every step of the detailed specification issues one new request, settles
\* requests that are open, or leaves all of them as they are.
LEMMA StepSimulates == IInv /\ [Next]_vars => [Lifecycle!Next]_outcome
<1> SUFFICES ASSUME IInv, [Next]_vars PROVE [Lifecycle!Next]_outcome
  OBVIOUS
<1>1. CASE Begin
  <2>1. issued + 1 \in Requests /\ outcome[issued + 1] = "unused"
    BY <1>1, Ranges DEF IInv, Begin, InHand, Numbered
  <2> QED
    BY <1>1, <2>1 DEF Begin, Lifecycle!Issue, Lifecycle!Next
<1>2. CASE SendFails
  <2>1. {disp.req} \cap pending \in SUBSET Requests
    BY Ranges DEF IInv
  <2> QED
    BY <1>2, <2>1, SettlingSteps DEF IInv, Table, SendFails, Lifecycle!Settled
<1>3. CASE Collect \/ GiveUp
  <2>1. disp.req \in Requests /\ outcome[disp.req] = "open"
    BY <1>3, InHandIssued DEF IInv, InHand, Table, Collect, GiveUp
  <2> QED
    BY <1>3, <2>1, SettlingSteps DEF IInv, Collect, GiveUp, Lifecycle!Settled
<1>4. ASSUME NEW p \in Pruners, TakeOutExpired(p) PROVE [Lifecycle!Next]_outcome
  <2>1. Expired \in SUBSET Requests /\ \A q \in Expired : outcome[q] = "open"
    BY Ranges DEF IInv, Table, Expired
  <2>2. Settle(Expired, "expired")
    BY <1>4 DEF TakeOutExpired
  <2> QED
    BY <2>1, <2>2, SettlingSteps DEF IInv, Lifecycle!Settled
<1>5. CASE Prune \/ (\E c \in Capabilities, sync \in BOOLEAN : StartDispatch(c, sync))
           \/ (\E q \in Requests : Receive(q))
  BY <1>4, <1>5 DEF Prune, StartDispatch, Receive, Pruners
<1>6. CASE Restart
  <2>1. /\ {q \in Requests : outcome[q] = "open"} \in SUBSET Requests
        /\ Settle({q \in Requests : outcome[q] = "open"}, "lost")
    BY <1>6 DEF Restart
  <2> QED
    BY <2>1, SettlingSteps DEF IInv, Lifecycle!Settled
<1>7. ASSUME NEW r \in Requests, Accept(r) PROVE [Lifecycle!Next]_outcome
  <2>1. r \in pending /\ outcome[r] = "open"
    BY <1>7 DEF IInv, Table, Accept
  <2>2. outcome' = outcome \/ Settle({r}, "answered")
    BY <1>7 DEF Accept
  <2> QED
    BY <2>1, <2>2, SettlingSteps DEF IInv, Lifecycle!Settled
<1>8. CASE \/ StartCycle \/ EndCycle \/ FinishResultCycle \/ Refuse \/ Check
           \/ Register \/ Send \/ SetBusy \/ Launch
  BY <1>8 DEF StartCycle, EndCycle, FinishResultCycle, Refuse, Check, Register, Send,
     SetBusy, Launch
<1>9. CASE \E q \in Requests :
             StartResultCycle(q) \/ Lapse(q) \/ Ignore(q) \/ RunnerRejected(q)
  BY <1>9 DEF StartResultCycle, Lapse, Ignore, RunnerRejected
<1>10. CASE \E p \in Pruners, q \in Requests : CleanUp(p, q)
  BY <1>10 DEF CleanUp
<1>11. CASE UNCHANGED vars
  BY <1>11 DEF vars
<1> QED
  BY <1>1, <1>2, <1>3, <1>5, <1>6, <1>7, <1>8, <1>9, <1>10, <1>11 DEF Next

\* Whatever results arrive, how often, and whoever prunes, a request is issued
\* once, settled at most once, and the way it was settled is final.
THEOREM RequestsRefine == Spec => ImplementsRequestLifecycle
<1>1. Init => Lifecycle!Init
  BY DEF Init, Lifecycle!Init
<1> QED
  BY Invariance, StepSimulates, <1>1, PTL DEF Spec, ImplementsRequestLifecycle, Lifecycle!Spec

-----------------------------------------------------------------------------
(* Busy and the ongoing action: a second invariant, on top of IInv.        *)

\* The row of the ongoing action names the request that set its expiry, and that
\* request belongs to the action.
Named ==
    action.id # None =>
      /\ action.by \in 1..issued
      /\ info[action.by].action = action.id
      /\ ~ info[action.by].sync

\* An action waits for a request in the table, for an accepted result, or for
\* the request that is about to enter the table.
Waiting == ActionLive /\ action.status = "waiting"
Awaited ==
    Waiting => \/ action.by \in pending \cup results
               \/ disp.pc = "register" /\ action.by = disp.req

\* The request in hand is for the capability it was checked for.  A request of
\* the runner is out of everybody's reach until the runner is started.
HandOf ==
    /\ disp.req # None => info[disp.req].cap = disp.cap
    /\ disp.cap = Runner => ~ disp.sync /\ disp.pc # "send"
    /\ disp.pc \in {"register", "busy", "launch"} /\ disp.cap = Runner =>
         disp.req \notin lapsed \cup delivered \cup accepting
    /\ disp.pc \in {"busy", "launch"} /\ disp.cap = Runner => disp.req \in pending
    /\ disp.pc = "launch" => disp.cap = Runner /\ busyReq[disp.cap] = disp.req

\* A capability is busy for a request of its own.
BusyOfOwn == \A c \in Capabilities : busyReq[c] # None => info[busyReq[c]].cap = c

\* What is being cleaned up after is settled.
Apart == \A p \in Pruners : \A q \in owed[p] : outcome[q] # "open"

\* The runner submits one result.
RunnerOnce == \A q \in delivered : info[q].cap = Runner => q \notin accepting

\* The requests that are out, but for the one in hand, keep their capability
\* busy, and the one in hand is for another capability.
Others == ((pending \ lapsed) \cap (delivered \cup accepting)) \ {disp.req}
Holders ==
    /\ \A q \in Others : busyReq[info[q].cap] = q
    /\ disp.pc \notin {"idle", "check"} => \A q \in Others : info[q].cap # disp.cap

Slots == HandOf /\ BusyOfOwn /\ Apart /\ RunnerOnce /\ Holders
BInv == Named /\ Awaited /\ Slots

\* A step that leaves the row, or ends it, or activates it, keeps its name.
LEMMA RowNamed ==
    ASSUME IInv, Named, UNCHANGED <<issued, info>>,
           action' \in {action, NoAction, [action EXCEPT !.status = "active"]}
    PROVE  Named'
<1>1. CASE action' = NoAction
  BY <1>1 DEF Named, NoAction
<1>2. CASE action' # NoAction
  <2>1. action'.id = action.id /\ action'.by = action.by
    BY <1>2 DEF IInv, TypeOK
  <2> QED
    BY <2>1 DEF Named
<1> QED
  BY <1>1, <1>2

LEMMA RowKinds ==
    ASSUME NEW id
    PROVE  /\ FinishedAction(id) \in {action, NoAction}
           /\ ActivatedAction(id) \in {action, [action EXCEPT !.status = "active"]}
BY DEF FinishedAction, ActivatedAction

\* A row that is left or ends waits for what it waited for.
LEMMA RowAwaited ==
    ASSUME Awaited, UNCHANGED <<lapsed, pending, results, disp>>,
           action' \in {action, NoAction}
    PROVE  Awaited'
BY DEF Awaited, Waiting, ActionLive, NoAction

\* The rest does not look at the row, and not at cycles.
LEMMA SlotsFrame ==
    ASSUME Slots, UNCHANGED <<info, pending, lapsed, disp, busyReq, delivered,
                              accepting, owed, outcome>>
    PROVE  Slots'
BY DEF Slots, HandOf, BusyOfOwn, Apart, RunnerOnce, Holders, Others

\* Clearing busy after q frees the capability of q, and no other.
LEMMA Clearing ==
    ASSUME IInv, BusyOfOwn, NEW q \in Requests, ClearBusy(q), info' = info
    PROVE  /\ BusyOfOwn'
           /\ \A c \in Capabilities : /\ busyReq'[c] \in {None, busyReq[c]}
                                      /\ busyReq[c] # q => busyReq'[c] = busyReq[c]
                                      /\ busyReq'[c] # q
<1>1. info[q].cap \in Capabilities /\ busyReq \in [Capabilities -> 0..issued] /\ q # None
  <2>1. info[q].cap \in Capabilities /\ busyReq \in [Capabilities -> 0..issued]
    BY DEF IInv, TypeOK
  <2>2. q # None
    BY CapabilityAssumption DEF Requests, None
  <2> QED
    BY <2>1, <2>2
<1>2. busyReq' = IF busyReq[info[q].cap] = q
                 THEN [busyReq EXCEPT ![info[q].cap] = None] ELSE busyReq
  BY DEF ClearBusy
<1>3. \A c \in Capabilities : /\ busyReq'[c] \in {None, busyReq[c]}
                              /\ busyReq[c] # q => busyReq'[c] = busyReq[c]
  BY <1>1, <1>2
<1>4. ASSUME NEW c \in Capabilities  PROVE busyReq'[c] # q
  <2>1. CASE busyReq[c] = q
    <3>1. c = info[q].cap
      BY <1>1, <2>1 DEF BusyOfOwn
    <3> QED
      BY <1>1, <1>2, <2>1, <3>1
  <2> QED
    BY <1>1, <1>3, <2>1
<1> QED
  BY <1>3, <1>4 DEF BusyOfOwn

\* With fewer requests out, or fewer but the one in hand, holding stays.
LEMMA FewerHold ==
    ASSUME Holders, UNCHANGED info, Others' \subseteq Others,
           \A q \in Others' : busyReq'[info[q].cap] = busyReq[info[q].cap],
           \/ disp'.pc \in {"idle", "check"}
           \/ disp.pc \notin {"idle", "check"} /\ disp'.cap = disp.cap
    PROVE  Holders'
BY DEF Holders

-----------------------------------------------------------------------------
(* Judgement cycles and time.                                              *)

LEMMA CyclesKeepBInv ==
    ASSUME IInv, BInv, StartCycle \/ EndCycle \/ UNCHANGED vars
    PROVE  BInv'
<1>1. UNCHANGED <<issued, info, pending, results, disp, busyReq, action, lapsed, owed,
                  outcome, delivered, accepting>>
  BY DEF StartCycle, EndCycle, vars
<1> QED
  BY <1>1, RowNamed, RowAwaited, SlotsFrame DEF BInv

LEMMA StartResultCycleKeepsBInv ==
    ASSUME IInv, BInv, NEW r \in Requests, StartResultCycle(r)
    PROVE  BInv'
<1>1. /\ action' = ActivatedAction(info[r].action) /\ results' = results \ {r}
      /\ UNCHANGED <<issued, info, pending, lapsed, disp, busyReq, delivered,
                     accepting, owed, outcome>>
  BY DEF StartResultCycle
<1>2. Named'
  BY <1>1, RowKinds, RowNamed DEF BInv
<1>3. Awaited'
  <2> SUFFICES ASSUME Waiting'
               PROVE  action'.by \in pending' \cup results'
                      \/ (disp'.pc = "register" /\ action'.by = disp'.req)
    BY DEF Awaited
  <2>1. action' = action
    <3>1. action \in ActionRows
      BY DEF IInv, TypeOK, ActionRows
    <3>2. action' = [action EXCEPT !.status = "active"] => action'.status = "active"
      BY <3>1 DEF ActionRows
    <3> QED
      BY <1>1, <3>2, RowKinds DEF Waiting
  <2>2. Waiting /\ action.id # None
    BY <1>1, <2>1 DEF Waiting, ActionLive
  <2>3. action.by # r
    <3> SUFFICES ASSUME action.by = r PROVE FALSE
      OBVIOUS
    <3>1. info[r].action = action.id
      BY <2>2 DEF BInv, Named
    <3>2. action' = [action EXCEPT !.status = "active"]
      BY <1>1, <2>2, <3>1 DEF ActivatedAction
    <3>3. action'.status = "active"
      BY <3>2 DEF IInv, TypeOK
    <3> QED
      BY <3>3 DEF Waiting
  <2> QED
    BY <1>1, <2>1, <2>2, <2>3 DEF BInv, Awaited
<1> QED
  BY <1>1, <1>2, <1>3, SlotsFrame DEF BInv

LEMMA FinishResultCycleKeepsBInv ==
    ASSUME IInv, BInv, FinishResultCycle
    PROVE  BInv'
<1>1. /\ action' \in {action, NoAction}
      /\ UNCHANGED <<issued, info, pending, results, lapsed, disp, busyReq, delivered,
                     accepting, owed, outcome>>
  BY RowKinds DEF FinishResultCycle
<1> QED
  BY <1>1, RowNamed, RowAwaited, SlotsFrame DEF BInv

LEMMA LapseKeepsBInv ==
    ASSUME IInv, BInv, NEW r \in Requests, Lapse(r)
    PROVE  BInv'
<1>1. /\ lapsed' = lapsed \cup {r} /\ (r = disp.req => disp.cap # Runner)
      /\ UNCHANGED <<issued, info, pending, results, disp, busyReq, action, delivered,
                     accepting, owed, outcome>>
  BY DEF Lapse
<1>2. Named' /\ Awaited'
  BY <1>1 DEF BInv, Named, Awaited, Waiting, ActionLive
<1>3. HandOf' /\ BusyOfOwn' /\ Apart' /\ RunnerOnce'
  BY <1>1 DEF BInv, Slots, HandOf, BusyOfOwn, Apart, RunnerOnce
<1>4. Holders'
  BY <1>1 DEF BInv, Slots, Holders, Others
<1> QED
  BY <1>2, <1>3, <1>4 DEF BInv, Slots

-----------------------------------------------------------------------------
(* Dispatch.                                                               *)

\* Taking out expired requests ends no wait that is still live.
LEMMA TakingOutBooks ==
    ASSUME IInv, BInv, NEW p \in Pruners, TakeOutExpired(p),
           UNCHANGED <<issued, info, action, lapsed, results>>
    PROVE  /\ Named' /\ Apart'
           /\ pending' = pending \ Expired
           /\ Waiting' => \/ action.by \in pending' \cup results'
                          \/ disp.pc = "register" /\ action.by = disp.req
<1>1. /\ pending' = pending \ Expired /\ Settle(Expired, "expired")
      /\ owed' = [owed EXCEPT ![p] = @ \cup Expired]
  BY DEF TakeOutExpired
<1>2. Named'
  BY DEF BInv, Named
<1>3. Apart'
  <2>1. \A q \in Requests : outcome'[q] = IF q \in Expired THEN "expired" ELSE outcome[q]
    BY <1>1 DEF Settle
  <2>2. \A r \in Pruners : owed'[r] \subseteq owed[r] \cup Expired
    BY <1>1 DEF IInv, TypeOK
  <2>3. \A r \in Pruners : owed[r] \subseteq Requests
    BY Ranges DEF IInv, TypeOK
  <2>4. Expired \subseteq Requests
    BY Ranges DEF IInv, Expired
  <2>5. ASSUME NEW r \in Pruners, NEW q \in owed'[r]  PROVE outcome'[q] # "open"
    BY <2>1, <2>2, <2>3, <2>4, <2>5 DEF BInv, Slots, Apart
  <2> QED
    BY <2>5 DEF Apart
<1>4. Waiting' => action.by \notin Expired
  BY DEF Waiting, ActionLive, Expired
<1>5. Waiting' => \/ action.by \in pending' \cup results'
                  \/ disp.pc = "register" /\ action.by = disp.req
  BY <1>1, <1>4 DEF BInv, Awaited, Waiting, ActionLive
<1> QED
  BY <1>1, <1>2, <1>3, <1>5

LEMMA StartDispatchKeepsBInv ==
    ASSUME IInv, BInv, NEW c \in Capabilities, NEW sync \in BOOLEAN, StartDispatch(c, sync)
    PROVE  BInv'
<1>1. /\ TakeOutExpired("dispatcher") /\ "dispatcher" \in Pruners
      /\ disp.pc = "idle" /\ (sync => c # Runner)
      /\ disp' = [pc |-> "check", cap |-> c, sync |-> sync, req |-> None]
      /\ UNCHANGED <<issued, info, action, lapsed, results, busyReq, delivered, accepting>>
  BY DEF StartDispatch, Pruners
<1>2. /\ Named' /\ Apart' /\ pending' = pending \ Expired
      /\ Waiting' => \/ action.by \in pending' \cup results'
                     \/ disp.pc = "register" /\ action.by = disp.req
  BY <1>1, TakingOutBooks
<1>3. Awaited'
  BY <1>1, <1>2 DEF Awaited
<1>4. disp.req = None
  BY <1>1 DEF IInv, InHand
<1>5. HandOf'
  BY <1>1 DEF HandOf
<1>6. BusyOfOwn' /\ RunnerOnce'
  BY <1>1 DEF BInv, Slots, BusyOfOwn, RunnerOnce
<1>7. Others' \subseteq Others
  BY <1>1, <1>2, <1>4 DEF Others
<1>8. Holders'
  BY <1>1, <1>7, FewerHold DEF BInv, Slots
<1> QED
  BY <1>2, <1>3, <1>5, <1>6, <1>8 DEF BInv, Slots

LEMMA RefuseKeepsBInv ==
    ASSUME IInv, BInv, Refuse
    PROVE  BInv'
<1>1. /\ disp.pc \in {"check", "begin"} /\ disp' = NotDispatching
      /\ UNCHANGED <<issued, info, pending, results, busyReq, action, lapsed, owed,
                     outcome, delivered, accepting>>
  BY DEF Refuse
<1>2. disp.req = None
  BY <1>1 DEF IInv, InHand
<1>3. Named' /\ Awaited' /\ BusyOfOwn' /\ Apart' /\ RunnerOnce'
  BY <1>1, <1>2 DEF BInv, Named, Awaited, Waiting, ActionLive, Slots, BusyOfOwn, Apart,
     RunnerOnce, NotDispatching
<1>4. HandOf'
  BY <1>1 DEF HandOf, NotDispatching
<1>5. Others' \subseteq Others
  BY <1>1, <1>2 DEF Others, NotDispatching
<1>6. Holders /\ disp'.pc \in {"idle", "check"}
  BY <1>1 DEF BInv, Slots, NotDispatching
<1>7. Holders'
  <2>1. \A q \in Others' : busyReq'[info[q].cap] = busyReq[info[q].cap]
    BY <1>1
  <2> QED
    BY <1>1, <1>5, <1>6, <2>1, FewerHold
<1> QED
  BY <1>3, <1>4, <1>7 DEF BInv, Slots

\* A capability that is not busy has nothing out.
LEMMA CheckKeepsBInv ==
    ASSUME IInv, BInv, Check
    PROVE  BInv'
<1>1. /\ disp.pc = "check" /\ disp' = [disp EXCEPT !.pc = "begin"] /\ ~ Busy(disp.cap)
      /\ UNCHANGED <<issued, info, pending, results, busyReq, action, lapsed, owed,
                     outcome, delivered, accepting>>
  BY DEF Check
<1>2. disp'.pc = "begin" /\ disp'.req = disp.req /\ disp'.cap = disp.cap
      /\ disp'.sync = disp.sync
  BY <1>1 DEF IInv, TypeOK
<1>3. Named' /\ Awaited' /\ BusyOfOwn' /\ Apart' /\ RunnerOnce'
  BY <1>1, <1>2 DEF BInv, Named, Awaited, Waiting, ActionLive, Slots, BusyOfOwn, Apart,
     RunnerOnce
<1>4. HandOf'
  BY <1>1, <1>2 DEF BInv, Slots, HandOf
<1>5. Others' = Others
  BY <1>1, <1>2 DEF Others
<1>6. ASSUME NEW q \in Others  PROVE info[q].cap # disp.cap
  <2>1. q # None /\ busyReq[info[q].cap] = q
    BY Ranges DEF IInv, None, BInv, Slots, Holders, Others
  <2> QED
    BY <1>1, <2>1 DEF Busy
<1>7. Holders'
  BY <1>1, <1>2, <1>5, <1>6 DEF BInv, Slots, Holders
<1> QED
  BY <1>3, <1>4, <1>7 DEF BInv, Slots

LEMMA BeginKeepsBInv ==
    ASSUME IInv, BInv, Begin
    PROVE  BInv'
<1> DEFINE q == issued + 1
           id == IF disp.sync THEN None ELSE IF ActionLive THEN action.id ELSE q
<1>1. /\ disp.pc = "begin" /\ issued' = q
      /\ info' = [info EXCEPT ![q] = [cap |-> disp.cap, sync |-> disp.sync, action |-> id]]
      /\ action' = IF disp.sync THEN action
                   ELSE [id |-> id, by |-> q, cap |-> disp.cap, status |-> "waiting"]
      /\ disp' = [disp EXCEPT !.pc = "register", !.req = q]
      /\ outcome' = [outcome EXCEPT ![q] = "open"]
      /\ UNCHANGED <<pending, busyReq, lapsed, delivered, accepting, results, owed>>
  BY DEF Begin
<1>2. q \in Requests /\ 1..issued \subseteq 1..q /\ q \notin 1..issued /\ q \in 1..q /\ q # 0
  BY <1>1, Ranges DEF IInv, InHand
<1>3. /\ info'[q].cap = disp.cap /\ info'[q].sync = disp.sync /\ info'[q].action = id
      /\ \A r \in 1..issued : info'[r] = info[r] /\ outcome'[r] = outcome[r]
  BY <1>1, <1>2, Ranges DEF IInv, TypeOK
<1>4. disp'.pc = "register" /\ disp'.req = q /\ disp'.cap = disp.cap /\ disp'.sync = disp.sync
  BY <1>1 DEF IInv, TypeOK
<1>5. /\ disp.req = None
      /\ pending \subseteq 1..issued /\ lapsed \subseteq 1..issued
      /\ delivered \subseteq 1..issued /\ accepting \subseteq 1..issued
  BY <1>1 DEF IInv, InHand, TypeOK
<1>6. ASSUME disp.sync PROVE Named' /\ Awaited'
  <2>1. action' = action
    BY <1>1, <1>6
  <2>2. Named'
    BY <1>1, <1>2, <1>3, <2>1 DEF BInv, Named
  <2>3. Awaited'
    BY <1>1, <2>1 DEF BInv, Awaited, Waiting, ActionLive
  <2> QED
    BY <2>2, <2>3
<1>7. ASSUME ~ disp.sync PROVE Named' /\ Awaited'
  <2>1. action'.id = id /\ action'.by = q
    BY <1>1, <1>7
  <2> HIDE DEF q, id
  <2>2. Named'
    BY <1>1, <1>2, <1>3, <1>7, <2>1 DEF Named
  <2>3. Awaited'
    BY <1>4, <2>1 DEF Awaited
  <2> QED
    BY <2>2, <2>3
<1>8. Named' /\ Awaited'
  BY <1>6, <1>7
<1> HIDE DEF q, id
<1>9. HandOf'
  <2>1. info'[q].cap = disp.cap /\ (disp.cap = Runner => ~ disp.sync)
    BY <1>3 DEF BInv, Slots, HandOf
  <2>2. q \notin lapsed' \cup delivered' \cup accepting'
    BY <1>1, <1>2, <1>5
  <2> QED
    BY <1>4, <2>1, <2>2 DEF HandOf
<1>10. BusyOfOwn'
  <2>1. \A c \in Capabilities : busyReq[c] # None => busyReq[c] \in 1..issued
    BY DEF IInv, TypeOK, None
  <2> QED
    BY <1>1, <1>3, <2>1 DEF BInv, Slots, BusyOfOwn
<1>11. Apart' /\ RunnerOnce'
  <2>1. \A p \in Pruners : owed[p] \subseteq 1..issued
    BY DEF IInv, TypeOK
  <2>2. Apart'
    BY <1>1, <1>3, <2>1 DEF BInv, Slots, Apart
  <2>3. RunnerOnce'
    BY <1>1, <1>3, <1>5 DEF BInv, Slots, RunnerOnce
  <2> QED
    BY <2>2, <2>3
<1>12. Holders'
  <2>1. Others' \subseteq Others /\ Others \subseteq 1..issued
    BY <1>1, <1>4, <1>5 DEF Others, None
  <2> QED
    BY <1>1, <1>3, <1>4, <2>1 DEF BInv, Slots, Holders
<1> QED
  BY <1>8, <1>9, <1>10, <1>11, <1>12 DEF BInv, Slots

LEMMA RegisterKeepsBInv ==
    ASSUME IInv, BInv, Register
    PROVE  BInv'
<1>1. /\ disp.pc = "register" /\ pending' = pending \cup {disp.req}
      /\ UNCHANGED <<issued, info, results, busyReq, action, lapsed, owed, outcome,
                     delivered, accepting>>
  BY DEF Register
<1>2. /\ disp'.pc = IF disp.cap = Runner THEN "busy" ELSE "send"
      /\ disp'.req = disp.req /\ disp'.cap = disp.cap /\ disp'.sync = disp.sync
  BY DEF IInv, TypeOK, Register
<1>3. Named' /\ Awaited'
  BY <1>1 DEF BInv, Named, Awaited, Waiting, ActionLive
<1>4. HandOf'
  BY <1>1, <1>2 DEF BInv, Slots, HandOf
<1>5. BusyOfOwn' /\ Apart' /\ RunnerOnce'
  BY <1>1 DEF BInv, Slots, BusyOfOwn, Apart, RunnerOnce
<1>6. Others' = Others
  BY <1>1, <1>2 DEF Others
<1>7. Holders'
  BY <1>1, <1>2, <1>6, FewerHold DEF BInv, Slots
<1> QED
  BY <1>3, <1>4, <1>5, <1>7 DEF BInv, Slots

LEMMA SendKeepsBInv ==
    ASSUME IInv, BInv, Send
    PROVE  BInv'
<1>1. /\ disp.pc = "send" /\ delivered' = delivered \cup {disp.req}
      /\ UNCHANGED <<issued, info, pending, results, busyReq, action, lapsed, owed, outcome,
                     accepting>>
  BY DEF Send
<1>2. /\ disp'.pc = "busy"
      /\ disp'.req = disp.req /\ disp'.cap = disp.cap /\ disp'.sync = disp.sync
  BY DEF IInv, TypeOK, Send
<1>3. disp.cap # Runner /\ info[disp.req].cap = disp.cap
  BY <1>1 DEF IInv, InHand, BInv, Slots, HandOf
<1>4. Named' /\ Awaited'
  BY <1>1, <1>2 DEF BInv, Named, Awaited, Waiting, ActionLive
<1>5. HandOf'
  BY <1>1, <1>2, <1>3 DEF BInv, Slots, HandOf
<1>6. BusyOfOwn' /\ Apart' /\ RunnerOnce'
  BY <1>1, <1>3 DEF BInv, Slots, BusyOfOwn, Apart, RunnerOnce
<1>7. Others' = Others
  BY <1>1, <1>2 DEF Others
<1>8. Holders'
  BY <1>1, <1>2, <1>7, FewerHold DEF BInv, Slots
<1> QED
  BY <1>4, <1>5, <1>6, <1>8 DEF BInv, Slots

LEMMA SendFailsKeepsBInv ==
    ASSUME IInv, BInv, SendFails
    PROVE  BInv'
<1>1. /\ disp.pc = "send" /\ pending' = pending \ {disp.req} /\ ClearBusy(disp.req)
      /\ action' = FinishedAction(info[disp.req].action) /\ disp' = NotDispatching
      /\ Settle({disp.req} \cap pending, "failed")
      /\ UNCHANGED <<issued, info, results, lapsed, owed, delivered, accepting>>
  BY DEF SendFails
<1>2. disp.req \in Requests
  BY <1>1, InHandIssued DEF IInv
<1>3. /\ BusyOfOwn'
      /\ \A c \in Capabilities : busyReq[c] # disp.req => busyReq'[c] = busyReq[c]
  BY <1>1, <1>2, Clearing DEF BInv, Slots
<1>4. Named'
  BY <1>1, RowKinds, RowNamed DEF BInv
<1>5. Awaited'
  <2> SUFFICES ASSUME Waiting' PROVE action'.by \in pending' \cup results'
    BY DEF Awaited
  <2>1. action' = action /\ action.id # None /\ Waiting
    BY <1>1, RowKinds DEF Waiting, ActionLive, NoAction
  <2>2. action.by # disp.req
    <3> SUFFICES ASSUME action.by = disp.req PROVE FALSE
      OBVIOUS
    <3>1. info[disp.req].action = action.id
      BY <2>1 DEF BInv, Named
    <3>2. action' = NoAction
      BY <1>1, <2>1, <3>1 DEF FinishedAction, Waiting
    <3> QED
      BY <2>1, <3>2 DEF NoAction
  <2> QED
    BY <1>1, <2>1, <2>2 DEF BInv, Awaited
<1>6. HandOf'
  BY <1>1 DEF HandOf, NotDispatching
<1>7. Apart' /\ RunnerOnce'
  <2>1. \A q \in Requests : outcome'[q] \in {"failed", outcome[q]}
    BY <1>1 DEF Settle
  <2>2. \A p \in Pruners : owed[p] \subseteq Requests
    BY Ranges DEF IInv, TypeOK
  <2>3. Apart'
    BY <1>1, <2>1, <2>2 DEF BInv, Slots, Apart
  <2> QED
    BY <1>1, <2>3 DEF BInv, Slots, RunnerOnce
<1>8. Holders'
  <2>1. Others' \subseteq Others /\ disp.req \notin Others'
    BY <1>1 DEF Others
  <2>2. \A q \in Others' : info[q].cap \in Capabilities /\ busyReq[info[q].cap] = q
    BY <2>1, Ranges DEF IInv, TypeOK, Others, BInv, Slots, Holders
  <2>3. \A q \in Others' : busyReq'[info[q].cap] = busyReq[info[q].cap]
    BY <1>3, <2>1, <2>2
  <2> QED
    BY <1>1, <2>1, <2>3, FewerHold DEF BInv, Slots, NotDispatching
<1> QED
  BY <1>3, <1>4, <1>5, <1>6, <1>7, <1>8 DEF BInv, Slots

\* When the hand is empty nothing is asked of it.
LEMMA HandFree ==
    ASSUME disp' = NotDispatching
    PROVE  HandOf' /\ disp'.pc \in {"idle", "check"}
BY DEF HandOf, NotDispatching

\* Settling, and having less to clean up after, keeps what is owed settled.
LEMMA SettlingApart ==
    ASSUME IInv, Apart, NEW Q, NEW o, o # "open", Settle(Q, o),
           \A p \in Pruners : owed'[p] \subseteq owed[p]
    PROVE  Apart'
<1>1. \A q \in Requests : outcome'[q] \in {o, outcome[q]}
  BY DEF Settle
<1>2. \A p \in Pruners : owed[p] \subseteq Requests
  BY Ranges DEF IInv, TypeOK
<1> QED
  BY <1>1, <1>2 DEF Apart

\* Clearing busy after a request that is no longer out.
LEMMA ClearingHolds ==
    ASSUME IInv, Slots, NEW q \in Requests, ClearBusy(q), info' = info,
           Others' \subseteq Others \ {q},
           \/ disp'.pc \in {"idle", "check"}
           \/ disp.pc \notin {"idle", "check"} /\ disp'.cap = disp.cap
    PROVE  Holders'
<1>1. \A c \in Capabilities : busyReq[c] # q => busyReq'[c] = busyReq[c]
  BY Clearing DEF Slots
<1>2. ASSUME NEW r \in Others'  PROVE busyReq'[info[r].cap] = busyReq[info[r].cap]
  <2>1. r \in Requests /\ info[r].cap \in Capabilities
    BY Ranges DEF IInv, TypeOK, Others
  <2>2. busyReq[info[r].cap] # q
    BY DEF Slots, Holders
  <2> QED
    BY <1>1, <2>1, <2>2
<1>3. Holders
  BY DEF Slots
<1> QED
  BY <1>2, <1>3, FewerHold

\* The request of a synchronous wait is not the one an action waits for.
LEMMA SyncHasNoAction ==
    ASSUME IInv, BInv, disp.pc = "wait", Waiting
    PROVE  action.by # disp.req
BY DEF IInv, InHand, BInv, Named, Waiting, ActionLive

LEMMA SetBusyKeepsBInv ==
    ASSUME IInv, BInv, SetBusy
    PROVE  BInv'
<1>1. /\ disp.pc = "busy" /\ busyReq' = [busyReq EXCEPT ![disp.cap] = disp.req]
      /\ UNCHANGED <<issued, info, pending, results, action, lapsed, owed, outcome,
                     delivered, accepting>>
  BY DEF SetBusy
<1>2. \/ /\ disp'.pc \in {"wait", "launch"} /\ disp'.req = disp.req
         /\ disp'.cap = disp.cap /\ disp'.sync = disp.sync
         /\ disp'.pc = "launch" => disp.cap = Runner
      \/ disp' = NotDispatching
  BY DEF SetBusy, IInv, TypeOK
<1>3. /\ disp.cap \in Capabilities /\ busyReq'[disp.cap] = disp.req
      /\ \A c \in Capabilities : c # disp.cap => busyReq'[c] = busyReq[c]
      /\ disp.req \in Requests /\ disp.req # None /\ info[disp.req].cap = disp.cap
  BY <1>1, InHandIssued DEF IInv, TypeOK, InHand, BInv, Slots, HandOf
<1>4. Named' /\ Awaited'
  BY <1>1 DEF BInv, Named, Awaited, Waiting, ActionLive
<1>5. HandOf'
  <2>1. CASE disp' = NotDispatching
    BY <2>1, HandFree
  <2>2. CASE disp' # NotDispatching
    BY <1>1, <1>2, <1>3, <2>2 DEF BInv, Slots, HandOf
  <2> QED
    BY <2>1, <2>2
<1>6. BusyOfOwn' /\ Apart' /\ RunnerOnce'
  BY <1>1, <1>3 DEF BInv, Slots, BusyOfOwn, Apart, RunnerOnce
<1>7. \A q \in Others : q # disp.req /\ busyReq[info[q].cap] = q /\ info[q].cap # disp.cap
                        /\ info[q].cap \in Capabilities
  BY <1>1, Ranges DEF IInv, TypeOK, BInv, Slots, Holders, Others
<1>8. Others' \subseteq Others \cup {disp.req}
  BY <1>1 DEF Others
<1>9. \A q \in Others' : busyReq'[info'[q].cap] = q
  BY <1>1, <1>3, <1>7, <1>8
<1>10. disp'.pc \notin {"idle", "check"} => \A q \in Others' : info'[q].cap # disp'.cap
  <2> SUFFICES ASSUME disp'.pc \notin {"idle", "check"}
               PROVE  \A q \in Others' : info'[q].cap # disp'.cap
    OBVIOUS
  <2>1. disp'.req = disp.req /\ disp'.cap = disp.cap
    BY <1>2 DEF NotDispatching
  <2>2. Others' = Others
    BY <1>1, <2>1 DEF Others
  <2> QED
    BY <1>1, <1>7, <2>1, <2>2
<1>11. Holders'
  BY <1>9, <1>10 DEF Holders
<1> QED
  BY <1>4, <1>5, <1>6, <1>11 DEF BInv, Slots

LEMMA LaunchKeepsBInv ==
    ASSUME IInv, BInv, Launch
    PROVE  BInv'
<1>1. /\ disp.pc = "launch" /\ delivered' = delivered \cup {disp.req}
      /\ disp' = NotDispatching
      /\ UNCHANGED <<issued, info, pending, results, busyReq, action, lapsed, owed, outcome,
                     accepting>>
  BY DEF Launch
<1>2. /\ disp.cap = Runner /\ busyReq[disp.cap] = disp.req /\ disp.req \notin accepting
      /\ disp.req # None /\ info[disp.req].cap = disp.cap
  BY <1>1 DEF IInv, InHand, BInv, Slots, HandOf
<1>3. Named' /\ Awaited'
  BY <1>1 DEF BInv, Named, Awaited, Waiting, ActionLive
<1>4. HandOf' /\ disp'.pc = "idle"
  BY <1>1, HandFree DEF NotDispatching
<1>5. BusyOfOwn' /\ Apart' /\ RunnerOnce'
  BY <1>1, <1>2 DEF BInv, Slots, BusyOfOwn, Apart, RunnerOnce
<1>6. Others' \subseteq Others \cup {disp.req}
  BY <1>1 DEF Others
<1>7. Holders'
  BY <1>1, <1>2, <1>4, <1>6 DEF BInv, Slots, Holders
<1> QED
  BY <1>3, <1>4, <1>5, <1>7 DEF BInv, Slots

LEMMA CollectKeepsBInv ==
    ASSUME IInv, BInv, Collect
    PROVE  BInv'
<1>1. /\ disp.pc = "wait" /\ pending' = pending \ {disp.req} /\ disp' = NotDispatching
      /\ Settle({disp.req}, "answered")
      /\ UNCHANGED <<issued, info, results, busyReq, action, lapsed, owed, delivered,
                     accepting>>
  BY DEF Collect
<1>2. Named' /\ Awaited'
  BY <1>1, SyncHasNoAction DEF BInv, Named, Awaited, Waiting, ActionLive
<1>3. HandOf' /\ disp'.pc \in {"idle", "check"}
  BY <1>1, HandFree
<1>4. Apart'
  BY <1>1, SettlingApart DEF BInv, Slots
<1>5. BusyOfOwn' /\ RunnerOnce'
  BY <1>1 DEF BInv, Slots, BusyOfOwn, RunnerOnce
<1>6. Others' \subseteq Others
  BY <1>1 DEF Others
<1>7. Holders'
  BY <1>1, <1>3, <1>6, FewerHold DEF BInv, Slots
<1> QED
  BY <1>2, <1>3, <1>4, <1>5, <1>7 DEF BInv, Slots

LEMMA GiveUpKeepsBInv ==
    ASSUME IInv, BInv, GiveUp
    PROVE  BInv'
<1>1. /\ disp.pc = "wait" /\ pending' = pending \ {disp.req} /\ disp' = NotDispatching
      /\ ClearBusy(disp.req) /\ Settle({disp.req}, "expired")
      /\ UNCHANGED <<issued, info, results, action, lapsed, owed, delivered, accepting>>
  BY DEF GiveUp
<1>2. disp.req \in Requests
  BY <1>1, InHandIssued DEF IInv
<1>3. Named' /\ Awaited'
  BY <1>1, SyncHasNoAction DEF BInv, Named, Awaited, Waiting, ActionLive
<1>4. HandOf' /\ disp'.pc \in {"idle", "check"}
  BY <1>1, HandFree
<1>5. Apart'
  BY <1>1, SettlingApart DEF BInv, Slots
<1>6. BusyOfOwn' /\ RunnerOnce'
  BY <1>1, <1>2, Clearing DEF BInv, Slots, RunnerOnce
<1>7. Others' \subseteq Others \ {disp.req}
  BY <1>1 DEF Others
<1>8. Holders'
  BY <1>1, <1>2, <1>4, <1>7, ClearingHolds DEF BInv
<1> QED
  BY <1>3, <1>4, <1>5, <1>6, <1>8 DEF BInv, Slots

-----------------------------------------------------------------------------
(* Results, pruning and the end of the process.                            *)

LEMMA ReceiveKeepsBInv ==
    ASSUME IInv, BInv, NEW r \in Requests, Receive(r)
    PROVE  BInv'
<1>1. /\ r \in delivered /\ r \notin accepting /\ accepting' = accepting \cup {r}
      /\ delivered' = IF info[r].cap = Runner THEN delivered \ {r} ELSE delivered
      /\ TakeOutExpired("acceptor") /\ "acceptor" \in Pruners
      /\ UNCHANGED <<issued, info, busyReq, action, lapsed, disp, results>>
  BY DEF Receive, Pruners
<1>2. /\ Named' /\ Apart' /\ pending' = pending \ Expired
      /\ Waiting' => \/ action.by \in pending' \cup results'
                     \/ disp.pc = "register" /\ action.by = disp.req
  BY <1>1, TakingOutBooks
<1>3. Awaited'
  BY <1>1, <1>2 DEF Awaited
<1>4. HandOf'
  BY <1>1, <1>2 DEF BInv, Slots, HandOf, Expired
<1>5. BusyOfOwn' /\ RunnerOnce'
  BY <1>1 DEF BInv, Slots, BusyOfOwn, RunnerOnce
<1>6. Others' \subseteq Others
  BY <1>1, <1>2 DEF Others
<1>7. Holders'
  BY <1>1, <1>6, FewerHold DEF BInv, Slots
<1> QED
  BY <1>2, <1>3, <1>4, <1>5, <1>7 DEF BInv, Slots

LEMMA AcceptKeepsBInv ==
    ASSUME IInv, BInv, NEW r \in Requests, Accept(r)
    PROVE  BInv'
<1>1. /\ r \in accepting /\ r \in pending /\ ClearBusy(r) /\ accepting' = accepting \ {r}
      /\ UNCHANGED <<issued, info, action, lapsed, disp, delivered, owed>>
  BY DEF Accept
<1>2. \/ info[r].sync /\ UNCHANGED <<pending, results, outcome>>
      \/ pending' = pending \ {r} /\ results' = results \cup {r} /\ Settle({r}, "answered")
  BY DEF Accept
<1>3. Named' /\ Awaited'
  BY <1>1, <1>2 DEF BInv, Named, Awaited, Waiting, ActionLive
<1>4. /\ BusyOfOwn'
      /\ \A c \in Capabilities : busyReq[c] # r => busyReq'[c] = busyReq[c]
  BY <1>1, Clearing DEF BInv, Slots
<1>5. HandOf'
  <2>1. disp.pc \in {"register", "busy", "launch"} /\ disp.cap = Runner => disp.req # r
    BY <1>1 DEF BInv, Slots, HandOf
  <2>2. disp.pc = "launch" => busyReq'[disp.cap] = busyReq[disp.cap]
    BY <1>4, <2>1 DEF IInv, TypeOK, BInv, Slots, HandOf
  <2> QED
    BY <1>1, <1>2, <2>1, <2>2 DEF BInv, Slots, HandOf
<1>6. Apart' /\ RunnerOnce'
  <2>1. outcome' = outcome => Apart'
    BY <1>1 DEF BInv, Slots, Apart
  <2>2. Settle({r}, "answered") => Apart'
    BY <1>1, SettlingApart DEF BInv, Slots
  <2>3. RunnerOnce'
    BY <1>1 DEF BInv, Slots, RunnerOnce
  <2> QED
    BY <1>2, <2>1, <2>2, <2>3
<1>7. Others' \subseteq Others \ {r}
  BY <1>1, <1>2 DEF IInv, Table, Others
<1>8. Holders'
  BY <1>1, <1>7, ClearingHolds DEF BInv
<1> QED
  BY <1>3, <1>4, <1>5, <1>6, <1>8 DEF BInv, Slots

LEMMA IgnoreKeepsBInv ==
    ASSUME IInv, BInv, NEW r \in Requests, Ignore(r)
    PROVE  BInv'
<1>1. /\ accepting' = accepting \ {r}
      /\ UNCHANGED <<issued, info, pending, busyReq, action, lapsed, disp, delivered,
                     results, owed, outcome>>
  BY DEF Ignore
<1>2. Named' /\ Awaited'
  BY <1>1 DEF BInv, Named, Awaited, Waiting, ActionLive
<1>3. HandOf' /\ BusyOfOwn' /\ Apart' /\ RunnerOnce'
  BY <1>1 DEF BInv, Slots, HandOf, BusyOfOwn, Apart, RunnerOnce
<1>4. Others' \subseteq Others
  BY <1>1 DEF Others
<1>5. Holders'
  BY <1>1, <1>4, FewerHold DEF BInv, Slots
<1> QED
  BY <1>2, <1>3, <1>5 DEF BInv, Slots

LEMMA RunnerRejectedKeepsBInv ==
    ASSUME IInv, BInv, NEW r \in Requests, RunnerRejected(r)
    PROVE  BInv'
<1>1. /\ r \in delivered /\ info[r].cap = Runner /\ delivered' = delivered \ {r}
      /\ ClearBusy(r)
      /\ UNCHANGED <<issued, info, pending, action, lapsed, disp, accepting, results,
                     owed, outcome>>
  BY DEF RunnerRejected
<1>2. Named' /\ Awaited'
  BY <1>1 DEF BInv, Named, Awaited, Waiting, ActionLive
<1>3. /\ BusyOfOwn'
      /\ \A c \in Capabilities : busyReq[c] # r => busyReq'[c] = busyReq[c]
  BY <1>1, Clearing DEF BInv, Slots
<1>4. HandOf'
  <2>1. disp.pc = "launch" => busyReq'[disp.cap] = busyReq[disp.cap]
    BY <1>1, <1>3 DEF IInv, TypeOK, BInv, Slots, HandOf
  <2> QED
    BY <1>1, <2>1 DEF BInv, Slots, HandOf
<1>5. Apart' /\ RunnerOnce'
  BY <1>1 DEF BInv, Slots, Apart, RunnerOnce
<1>6. Others' \subseteq Others \ {r}
  BY <1>1 DEF BInv, Slots, RunnerOnce, Others
<1>7. Holders'
  BY <1>1, <1>6, ClearingHolds DEF BInv
<1> QED
  BY <1>2, <1>3, <1>4, <1>5, <1>7 DEF BInv, Slots

LEMMA PruneKeepsBInv ==
    ASSUME IInv, BInv, Prune
    PROVE  BInv'
<1>1. /\ TakeOutExpired("scheduler") /\ "scheduler" \in Pruners
      /\ UNCHANGED <<issued, info, busyReq, action, lapsed, disp, delivered, accepting,
                     results>>
  BY DEF Prune, Pruners
<1>2. /\ Named' /\ Apart' /\ pending' = pending \ Expired
      /\ Waiting' => \/ action.by \in pending' \cup results'
                     \/ disp.pc = "register" /\ action.by = disp.req
  BY <1>1, TakingOutBooks
<1>3. Awaited'
  BY <1>1, <1>2 DEF Awaited
<1>4. HandOf'
  BY <1>1, <1>2 DEF BInv, Slots, HandOf, Expired
<1>5. BusyOfOwn' /\ RunnerOnce'
  BY <1>1 DEF BInv, Slots, BusyOfOwn, RunnerOnce
<1>6. Others' \subseteq Others
  BY <1>1, <1>2 DEF Others
<1>7. Holders'
  BY <1>1, <1>6, FewerHold DEF BInv, Slots
<1> QED
  BY <1>2, <1>3, <1>4, <1>5, <1>7 DEF BInv, Slots

\* What is cleaned up after has left the table, so nothing that is out loses
\* its capability.
LEMMA CleanUpKeepsBInv ==
    ASSUME IInv, BInv, NEW p \in Pruners, NEW r \in Requests, CleanUp(p, r)
    PROVE  BInv'
<1>1. /\ r \in owed[p] /\ owed' = [owed EXCEPT ![p] = @ \ {r}] /\ ClearBusy(r)
      /\ action' = FinishedAction(info[r].action)
      /\ UNCHANGED <<issued, info, pending, lapsed, disp, delivered, accepting, results,
                     outcome>>
  BY DEF CleanUp
<1>2. r \notin pending
  BY <1>1 DEF IInv, Table, BInv, Slots, Apart
<1>3. Named' /\ Awaited'
  BY <1>1, RowKinds, RowNamed, RowAwaited DEF BInv
<1>4. /\ BusyOfOwn'
      /\ \A c \in Capabilities : busyReq[c] # r => busyReq'[c] = busyReq[c]
  BY <1>1, Clearing DEF BInv, Slots
<1>5. HandOf'
  <2>1. disp.pc = "launch" => busyReq'[disp.cap] = busyReq[disp.cap]
    BY <1>2, <1>4 DEF IInv, TypeOK, BInv, Slots, HandOf
  <2> QED
    BY <1>1, <2>1 DEF BInv, Slots, HandOf
<1>6. Apart' /\ RunnerOnce'
  <2>1. \A s \in Pruners : owed'[s] \subseteq owed[s]
    BY <1>1 DEF IInv, TypeOK
  <2> QED
    BY <1>1, <2>1 DEF BInv, Slots, Apart, RunnerOnce
<1>7. Others' \subseteq Others \ {r}
  BY <1>1, <1>2 DEF Others
<1>8. Holders'
  BY <1>1, <1>7, ClearingHolds DEF BInv
<1> QED
  BY <1>3, <1>4, <1>5, <1>6, <1>8 DEF BInv, Slots

LEMMA RestartKeepsBInv ==
    ASSUME IInv, BInv, Restart
    PROVE  BInv'
<1>1. /\ pending' = {} /\ results' = {} /\ accepting' = {} /\ disp' = NotDispatching
      /\ busyReq' = [c \in Capabilities |-> None] /\ owed' = [p \in Pruners |-> {}]
      /\ action' = IF ActionLive /\ action.status = "waiting" THEN NoAction ELSE action
      /\ UNCHANGED <<issued, info, lapsed>>
  BY DEF Restart
<1>2. Named'
  BY <1>1, RowNamed DEF BInv
<1>3. Awaited'
  BY <1>1 DEF Awaited, Waiting, ActionLive, NoAction
<1>4. HandOf'
  BY <1>1, HandFree
<1>5. BusyOfOwn' /\ Apart' /\ RunnerOnce'
  BY <1>1 DEF BusyOfOwn, Apart, RunnerOnce
<1>6. Holders'
  BY <1>1 DEF Holders, Others
<1> QED
  BY <1>2, <1>3, <1>4, <1>5, <1>6 DEF BInv, Slots

LEMMA InitBInv == Init => BInv
<1> SUFFICES ASSUME Init PROVE BInv
  OBVIOUS
<1>1. Named /\ Awaited
  BY DEF Init, Named, Awaited, Waiting, ActionLive, NoAction
<1>2. HandOf
  BY DEF Init, HandOf, NotDispatching
<1>3. BusyOfOwn /\ Apart /\ RunnerOnce /\ Holders
  BY DEF Init, BusyOfOwn, Apart, RunnerOnce, Holders, Others
<1> QED
  BY <1>1, <1>2, <1>3 DEF BInv, Slots

LEMMA NextKeepsBInv == IInv /\ BInv /\ [Next]_vars => BInv'
<1> SUFFICES ASSUME IInv, BInv, [Next]_vars PROVE BInv'
  OBVIOUS
<1>1. CASE StartCycle \/ EndCycle \/ FinishResultCycle \/ UNCHANGED vars
  BY <1>1, CyclesKeepBInv, FinishResultCycleKeepsBInv
<1>2. CASE Refuse \/ Check \/ Begin \/ Register \/ Send \/ SendFails
  BY <1>2, RefuseKeepsBInv, CheckKeepsBInv, BeginKeepsBInv, RegisterKeepsBInv,
     SendKeepsBInv, SendFailsKeepsBInv
<1>3. CASE SetBusy \/ Launch \/ Collect \/ GiveUp \/ Prune \/ Restart
  BY <1>3, SetBusyKeepsBInv, LaunchKeepsBInv, CollectKeepsBInv, GiveUpKeepsBInv,
     PruneKeepsBInv, RestartKeepsBInv
<1>4. CASE \E c \in Capabilities, sync \in BOOLEAN : StartDispatch(c, sync)
  BY <1>4, StartDispatchKeepsBInv
<1>5. CASE \E q \in Requests : \/ StartResultCycle(q) \/ Lapse(q) \/ Receive(q)
                               \/ Accept(q) \/ Ignore(q) \/ RunnerRejected(q)
  BY <1>5, StartResultCycleKeepsBInv, LapseKeepsBInv, ReceiveKeepsBInv, AcceptKeepsBInv,
     IgnoreKeepsBInv, RunnerRejectedKeepsBInv
<1>6. CASE \E p \in Pruners, q \in Requests : CleanUp(p, q)
  BY <1>6, CleanUpKeepsBInv
<1> QED
  BY <1>1, <1>2, <1>3, <1>4, <1>5, <1>6 DEF Next

LEMMA BusyInvariance == Spec => []BInv
BY Invariance, InitBInv, NextKeepsBInv, PTL DEF Spec

\* The ongoing_action waits for a request that is in the table, in the hands of
\* the dispatcher, or answered with its cycle still to come; after every step,
\* failure, timeout and restart, with any number of requests.
THEOREM ActionAwaitsRequest == Spec => []ActionHasRequest
<1>1. BInv => ActionHasRequest
  BY DEF BInv, Awaited, Waiting, ActionHasRequest
<1> QED
  BY BusyInvariance, <1>1, PTL

\* Two requests of a capability are never out at the same time, though the check
\* that it is free and the setting of busy are many steps apart.
THEOREM OneRequestOut == Spec => []OneRequestPerCapability
<1>1. ASSUME IInv, BInv  PROVE OneRequestPerCapability
  <2> DEFINE Out == (pending \ lapsed) \cap (delivered \cup accepting \cup {disp.req})
  <2>1. Out \subseteq Others \cup {disp.req}
    BY DEF Others
  <2>2. ASSUME NEW q \in Others, disp.req \in Out
        PROVE  info[q].cap # info[disp.req].cap
    <3>1. disp.req # None
      BY <1>1, <2>2, Ranges DEF IInv, TypeOK, None
    <3>2. disp.pc \notin {"idle", "check"} /\ info[disp.req].cap = disp.cap
      BY <1>1, <3>1 DEF IInv, InHand, BInv, Slots, HandOf
    <3> QED
      BY <1>1, <3>2 DEF BInv, Slots, Holders
  <2>3. ASSUME NEW q \in Others, NEW r \in Others, info[q].cap = info[r].cap
        PROVE  q = r
    BY <1>1, <2>3 DEF BInv, Slots, Holders
  <2>4. ASSUME NEW q \in Out, NEW r \in Out, info[q].cap = info[r].cap
        PROVE  q = r
    BY <2>1, <2>2, <2>3, <2>4
  <2> QED
    BY <2>4 DEF OneRequestPerCapability
<1> QED
  BY Invariance, BusyInvariance, <1>1, PTL

-----------------------------------------------------------------------------
(* Busy is cleared: no step but the setting of busy leaves a capability     *)
(* busy for a request that nobody will clear it after.                     *)

\* What somebody will still clear busy after.
Accounted == ((pending \cup {disp.req}) \ response) \cup UNION {owed[p] : p \in Pruners}

\* Busy that stays goes stale only if its request leaves every hand.
LEMMA StaysFresh ==
    ASSUME NEW c \in Capabilities, StaleBusy(c)', busyReq'[c] \in {None, busyReq[c]},
           busyReq[c] # None /\ busyReq'[c] = busyReq[c] /\ busyReq[c] \in Accounted
             => busyReq[c] \in Accounted'
    PROVE  StaleBusy(c)
BY DEF StaleBusy, Accounted

\* A request that is taken out stays in the hands of who took it out.
LEMMA TakenIsOwed ==
    ASSUME IInv, NEW p \in Pruners, TakeOutExpired(p), response' = response,
           \/ disp' = disp
           \/ disp.req = None
    PROVE  \A q \in Accounted \ {None} : q \in Accounted'
<1>1. pending' = pending \ Expired /\ owed' = [owed EXCEPT ![p] = @ \cup Expired]
  BY DEF TakeOutExpired
<1>2. Expired \subseteq owed'[p] /\ \A s \in Pruners : owed[s] \subseteq owed'[s]
  BY <1>1 DEF IInv, TypeOK
<1> QED
  BY <1>1, <1>2 DEF Accounted

LEMMA DispatchClears ==
    ASSUME IInv, BInv, NEW c \in Capabilities, StaleBusy(c)',
           \/ Refuse \/ Check \/ Begin \/ Register \/ Send \/ SendFails \/ SetBusy
           \/ Launch \/ Collect \/ GiveUp
    PROVE  StaleBusy(c) \/ (c # Runner /\ disp.pc = "busy" /\ disp.cap = c)
<1> SUFFICES ASSUME ~ (c # Runner /\ disp.pc = "busy" /\ disp.cap = c)
             PROVE  StaleBusy(c)
  OBVIOUS
<1>1. CASE Refuse \/ Check \/ Begin
  <2>1. disp.req = None \/ disp'.req = disp.req
    BY <1>1 DEF IInv, InHand, TypeOK, Refuse, Check, Begin
  <2>2. UNCHANGED <<busyReq, pending, response, owed>>
    BY <1>1 DEF Refuse, Check, Begin
  <2> QED
    BY <2>1, <2>2, StaysFresh DEF Accounted
<1>2. CASE Register \/ Send
  <2>1. disp'.req = disp.req
    BY <1>2 DEF IInv, TypeOK, Register, Send
  <2>2. UNCHANGED <<busyReq, response, owed>> /\ pending \subseteq pending'
    BY <1>2 DEF Register, Send
  <2> QED
    BY <2>1, <2>2, StaysFresh DEF Accounted
<1>3. CASE SendFails \/ GiveUp
  <2>1. /\ disp.req \in Requests /\ ClearBusy(disp.req) /\ pending' = pending \ {disp.req}
        /\ UNCHANGED <<info, response, owed>>
    BY <1>3, InHandIssued DEF IInv, SendFails, GiveUp
  <2>2. busyReq'[c] \in {None, busyReq[c]} /\ busyReq'[c] # disp.req
    BY <2>1, Clearing DEF BInv, Slots
  <2> QED
    BY <2>1, <2>2, StaysFresh DEF Accounted
<1>4. CASE SetBusy
  <2>1. /\ disp.pc = "busy" /\ busyReq' = [busyReq EXCEPT ![disp.cap] = disp.req]
        /\ UNCHANGED <<pending, response, owed>>
    BY <1>4 DEF SetBusy
  <2>2. disp.cap = Runner => disp'.req = disp.req /\ ~ disp.sync
    BY <1>4 DEF SetBusy, IInv, TypeOK, BInv, Slots, HandOf
  <2>3. /\ disp.req # None /\ info[disp.req].sync = disp.sync
        /\ info[disp.req].cap = disp.cap
    BY <2>1 DEF IInv, InHand, BInv, Slots, HandOf
  <2>4. CASE c = disp.cap
    <3>1. busyReq'[c] = disp'.req /\ disp.req \notin response
      BY <2>1, <2>2, <2>3, <2>4 DEF IInv, TypeOK, Kept
    <3> QED
      BY <2>1, <2>2, <2>4, <3>1 DEF StaleBusy
  <2>5. CASE c # disp.cap
    <3>1. busyReq'[c] = busyReq[c]
      BY <2>1, <2>5 DEF IInv, TypeOK
    <3>2. busyReq[c] # None => busyReq[c] # disp.req
      BY <2>3, <2>5 DEF BInv, Slots, BusyOfOwn
    <3> QED
      BY <2>1, <3>1, <3>2, StaysFresh DEF Accounted
  <2> QED
    BY <2>4, <2>5
<1>5. CASE Launch
  <2>1. /\ disp.pc = "launch" /\ UNCHANGED <<busyReq, pending, response, owed>>
    BY <1>5 DEF Launch
  <2>2. disp.req \in pending
    BY <2>1 DEF BInv, Slots, HandOf
  <2> QED
    BY <2>1, <2>2, StaysFresh DEF Accounted
<1>6. CASE Collect
  <2>1. /\ disp.req \in response /\ pending' = pending \ {disp.req}
        /\ UNCHANGED <<busyReq, response, owed>>
    BY <1>6 DEF Collect
  <2> QED
    BY <2>1, StaysFresh DEF Accounted
<1> QED
  BY <1>1, <1>2, <1>3, <1>4, <1>5, <1>6

LEMMA SettlingClears ==
    ASSUME IInv, BInv, NEW c \in Capabilities, StaleBusy(c)', NEW q \in Requests,
           \/ Receive(q) \/ Accept(q) \/ Ignore(q) \/ RunnerRejected(q)
           \/ \E p \in Pruners : CleanUp(p, q)
           \/ Prune \/ \E d \in Capabilities, sync \in BOOLEAN : StartDispatch(d, sync)
    PROVE  StaleBusy(c)
<1>1. ASSUME NEW p \in Pruners, TakeOutExpired(p), UNCHANGED <<response, busyReq>>,
             disp' = disp \/ disp.req = None
      PROVE  StaleBusy(c)
  BY <1>1, TakenIsOwed, StaysFresh
<1>2. CASE Receive(q) \/ Prune
  BY <1>1, <1>2 DEF Receive, Prune, Pruners
<1>3. CASE \E d \in Capabilities, sync \in BOOLEAN : StartDispatch(d, sync)
  <2>1. disp.pc = "idle" /\ TakeOutExpired("dispatcher") /\ UNCHANGED <<response, busyReq>>
    BY <1>3 DEF StartDispatch
  <2> QED
    BY <1>1, <2>1 DEF IInv, InHand, Pruners
<1>4. CASE Ignore(q)
  BY <1>4, StaysFresh DEF Ignore, Accounted
<1>5. ASSUME ClearBusy(q), info' = info, disp' = disp, response' \subseteq response \cup {q},
             pending \ {q} \subseteq pending',
             \A p \in Pruners : owed[p] \ {q} \subseteq owed'[p]
      PROVE  StaleBusy(c)
  <2>1. busyReq'[c] \in {None, busyReq[c]} /\ busyReq'[c] # q
    BY <1>5, Clearing DEF BInv, Slots
  <2> QED
    BY <1>5, <2>1, StaysFresh DEF Accounted
<1>6. CASE Accept(q) \/ RunnerRejected(q)
  BY <1>5, <1>6 DEF Accept, RunnerRejected
<1>7. CASE \E p \in Pruners : CleanUp(p, q)
  <2>1. \A p \in Pruners : owed[p] \ {q} \subseteq owed'[p]
    BY <1>7 DEF CleanUp, IInv, TypeOK
  <2> QED
    BY <1>5, <1>7, <2>1 DEF CleanUp
<1> QED
  BY <1>2, <1>3, <1>4, <1>6, <1>7

LEMMA StepClears ==
    ASSUME IInv, BInv, [Next]_vars, NEW c \in Capabilities, StaleBusy(c)'
    PROVE  StaleBusy(c) \/ (c # Runner /\ disp.pc = "busy" /\ disp.cap = c)
<1>1. CASE \/ Refuse \/ Check \/ Begin \/ Register \/ Send \/ SendFails \/ SetBusy
           \/ Launch \/ Collect \/ GiveUp
  BY <1>1, DispatchClears
<1>2. ASSUME NEW q \in Requests,
             \/ Receive(q) \/ Accept(q) \/ Ignore(q) \/ RunnerRejected(q)
             \/ \E p \in Pruners : CleanUp(p, q)
      PROVE  StaleBusy(c)
  BY <1>2, SettlingClears
<1>3. CASE Prune \/ \E d \in Capabilities, sync \in BOOLEAN : StartDispatch(d, sync)
  <2>1. CASE Requests # {}
    BY <1>3, <2>1, SettlingClears
  <2>2. CASE Requests = {}
    <3>1. pending = {} /\ issued = 0
      BY <2>2, Ranges DEF IInv
    <3>2. busyReq[c] = None
      BY <3>1 DEF IInv, TypeOK, None
    <3> QED
      BY <1>3, <3>2 DEF StaleBusy, Prune, StartDispatch
  <2> QED
    BY <2>1, <2>2
<1>4. CASE \/ StartCycle \/ EndCycle \/ FinishResultCycle \/ UNCHANGED vars
           \/ \E q \in Requests : StartResultCycle(q) \/ Lapse(q)
  <2>1. UNCHANGED <<busyReq, pending, disp, response, owed>>
    BY <1>4 DEF StartCycle, EndCycle, FinishResultCycle, StartResultCycle, Lapse, vars
  <2> QED
    BY <2>1 DEF StaleBusy
<1>5. CASE Restart
  BY <1>5 DEF Restart, StaleBusy
<1> QED
  BY <1>1, <1>2, <1>3, <1>4, <1>5 DEF Next

\* Whatever settles a request, in whatever order, leaves its capability free or in
\* the hands of somebody who will free it; the one step that does not is the late
\* setting of busy after a send.
THEOREM SettlingFreesCapability == Spec => BusyIsCleared
<1>1. IInv /\ BInv /\ [Next]_vars =>
        [\A c \in Capabilities : StaleBusy(c)' =>
           StaleBusy(c) \/ (c # Runner /\ disp.pc = "busy" /\ disp.cap = c)]_vars
  BY StepClears
<1> QED
  BY Invariance, BusyInvariance, <1>1, PTL DEF Spec, BusyIsCleared
=============================================================================
