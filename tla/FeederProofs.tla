---------------------------- MODULE FeederProofs ----------------------------
(***************************************************************************)
(* Proofs about Feeder: its type invariant, that the sequence is in step   *)
(* with the node's from a read with nothing pending on, whatever happened  *)
(* before it, and that no window gets two accepted batches until an        *)
(* acceptance is hidden from the feeder.                                   *)
(***************************************************************************)
EXTENDS Feeder, SequenceTheorems, TLAPS

\* The window of a call is a natural number.
LEMMA DivNat ==
    ASSUME NEW a \in Nat, NEW b \in Nat \ {0}
    PROVE  a \div b \in Nat
  OBVIOUS

\* What is left of the mempool after a block.
LEMMA RestOfMempool ==
    ASSUME NEW S, NEW s \in Seq(S), NEW n \in 0 .. Len(s)
    PROVE  /\ SubSeq(s, n + 1, Len(s)) \in Seq(S)
           /\ Len(SubSeq(s, n + 1, Len(s))) = Len(s) - n
  OBVIOUS

JobType == [pc : Steps, height : Nat, window : Nat, pairs : SUBSET Pairs,
            valid : BOOLEAN, attempt : Nat]

\* Jobs as the submit loop builds them.
LEMMA IdleType == Idle \in JobType
  BY DEF JobType, Idle, Steps

\* The call that a tick starts has the type of a call.
LEMMA PolledType ==
    ASSUME NEW h \in Nat
    PROVE  [Idle EXCEPT !.pc = "polled", !.height = h] \in JobType
  BY DEF JobType, Idle, Steps

\* So has a call at its next step,
LEMMA JobNext ==
    ASSUME NEW r \in JobType, NEW pc \in Steps, NEW attempt \in Nat
    PROVE  [r EXCEPT !.pc = pc, !.attempt = attempt] \in JobType
  BY Zenon DEF JobType

\* and one whose window, pairs and validity are set.
LEMMA JobFilled ==
    ASSUME NEW r \in JobType, NEW pc \in Steps, NEW h \in Nat, NEW w \in Nat,
           NEW P \in SUBSET Pairs, NEW v \in BOOLEAN, NEW attempt \in Nat
    PROVE  [r EXCEPT !.pc = pc, !.height = h, !.window = w, !.pairs = P,
                     !.valid = v, !.attempt = attempt] \in JobType
  BY Zenon DEF JobType

\* Ending an attempt yields a job.
LEMMA AgainType ==
    ASSUME job \in JobType PROVE Again \in JobType
<1>1. job.attempt + 1 \in Nat /\ "send" \in Steps
  BY DEF JobType, Steps
<1>2. [job EXCEPT !.pc = "send", !.attempt = job.attempt + 1] \in JobType
  BY <1>1, JobNext, Zenon
<1> QED BY <1>2, IdleType DEF Again

\* The initial state has the types.
LEMMA TypeInit == ASSUME Init PROVE TypeOK
<1>1. job \in JobType
  BY IdleType DEF Init
<1>2. voteWindow \in Nat \ {0} /\ params \in ParamChoices
  BY FeederAssumption DEF Init
<1>3. cache \in [Pairs -> {None, "positive", "nonpositive"}]
  BY DEF Init
<1>4. mempool \in Seq(SUBSET Pairs)
  BY DEF Init
<1>5. height \in 0 .. MaxHeight /\ fed \subseteq Pairs
  BY FeederAssumption DEF Init
<1>6. /\ seq \in Nat /\ accSeq \in Nat
      /\ lastWindow \in Nat \cup {-1} /\ acceptedFor \in Nat \cup {-1}
  BY DEF Init
<1>7. running \in BOOLEAN /\ undisturbed \in BOOLEAN /\ resynced \in BOOLEAN
  BY DEF Init
<1> QED BY <1>1, <1>2, <1>3, <1>4, <1>5, <1>6, <1>7, Zenon DEF TypeOK, JobType

\* Every step keeps the types.
LEMMA TypeStep == ASSUME TypeOK, [Next]_vars PROVE TypeOK'
<1> USE FeederAssumption DEF TypeOK
<1>j. job \in JobType
  BY DEF JobType
<1>a. Again \in JobType
  BY <1>j, AgainType
<1>1. ASSUME Start PROVE TypeOK'
  BY <1>1, IdleType DEF Start, JobType, chainVars
<1>2. ASSUME NEW p \in Pairs, FetchPair(p) PROVE TypeOK'
  BY <1>2 DEF FetchPair, Medians, submitVars, chainVars, history
<1>3. ASSUME PollHeight PROVE TypeOK'
  <2>1. job' \in JobType
    <3>0. height \in Nat
      OBVIOUS
    <3>1. [Idle EXCEPT !.pc = "polled", !.height = height] \in JobType
      BY <3>0, PolledType, Zenon
    <3> QED BY <1>3, <3>1 DEF PollHeight
  <2> QED BY <1>3, <2>1 DEF PollHeight, chainVars, history, JobType
<1>4. ASSUME MaybeSubmit PROVE TypeOK'
  <2>1. Window \in Nat
    BY DivNat DEF Window
  <2>2. FreshPairs \subseteq Pairs
    BY DEF FreshPairs
  <2>3. (\A p \in FreshPairs : cache[p] = "positive") \in BOOLEAN
    OBVIOUS
  <2>4. job' \in JobType
    <3>1. "send" \in Steps /\ 0 \in Nat /\ 1 \in Nat
      BY DEF Steps
    <3>2. [job EXCEPT !.pc = "send", !.height = 0, !.window = Window,
                      !.pairs = FreshPairs,
                      !.valid = \A p \in FreshPairs : cache[p] = "positive",
                      !.attempt = 1] \in JobType
      BY <1>j, <2>1, <2>2, <2>3, <3>1, JobFilled, Zenon
    <3> QED BY <1>4, <3>2, IdleType, Zenon DEF MaybeSubmit
  <2> QED BY <1>4, <2>4 DEF MaybeSubmit, chainVars, history, JobType
<1>5. ASSUME SubmitFeeds PROVE TypeOK'
  <2>1. job' \in JobType
    <3> HIDE DEF Again
    <3> QED BY <1>5, <1>a, <1>j DEF SubmitFeeds, JobType, Steps
  <2> QED BY <1>5, <2>1 DEF SubmitFeeds, chainVars, history, JobType
<1>6. ASSUME ReceiveAccepted PROVE TypeOK'
  BY <1>6 DEF ReceiveAccepted, RecordAccepted, Idle, Steps, chainVars, history
<1>7. ASSUME ReceiveRejected PROVE TypeOK'
  <2>1. job' \in JobType
    BY <1>7, <1>a DEF ReceiveRejected
  <2> QED BY <1>7, <2>1 DEF ReceiveRejected, RefreshAccount, chainVars, JobType
<1>8. ASSUME HandleRequest PROVE TypeOK'
  <2>1. job' \in JobType
    <3>1. \A q \in Steps : [job EXCEPT !.pc = q] \in JobType
      BY <1>j, Zenon DEF JobType
    <3> QED BY <1>8, <3>1 DEF HandleRequest, Steps
  <2>2. Append(mempool, job.pairs) \in Seq(SUBSET Pairs)
    OBVIOUS
  <2> QED BY <1>8, <2>1, <2>2 DEF HandleRequest, JobType
<1>9. ASSUME NEW n \in 0 .. Len(mempool), NEW p \in ParamChoices, CommitBlock(n, p) PROVE TypeOK'
  <2>1. mempool' \in Seq(SUBSET Pairs)
    BY <1>9, RestOfMempool DEF CommitBlock
  <2>2. Landed(n) \subseteq Pairs
    BY DEF Landed
  <2>3. fed' \subseteq Pairs
    BY <1>9, <2>2 DEF CommitBlock
  <2>4. height' \in 0 .. MaxHeight
    BY <1>9 DEF CommitBlock, Faulty
  <2>5. accSeq' \in Nat
    BY <1>9 DEF CommitBlock
  <2> QED BY <1>9, <2>1, <2>3, <2>4, <2>5 DEF CommitBlock, submitVars, history
<1>10. ASSUME NEW p \in Pairs, Expire(p) PROVE TypeOK'
  BY <1>10 DEF Expire, submitVars, chainVars, history
<1>11. ASSUME BreakCall PROVE TypeOK'
  <2>1. job' \in JobType
    BY <1>11, <1>a DEF BreakCall
  <2> QED BY <1>11, <2>1 DEF BreakCall, chainVars, JobType
<1>12. ASSUME RefuseRequest PROVE TypeOK'
  <2>1. job' \in JobType
    BY <1>12, <1>j DEF RefuseRequest, JobType, Steps
  <2> QED BY <1>12, <2>1 DEF RefuseRequest, chainVars, history, JobType
<1>13. ASSUME NodeRestart PROVE TypeOK'
  <2>1. job' \in JobType
    BY <1>13, <1>a, <1>j DEF NodeRestart
  <2> QED BY <1>13, <2>1 DEF NodeRestart, JobType
<1>14. ASSUME Crash PROVE TypeOK'
  BY <1>14 DEF Crash, Idle, Steps, chainVars
<1>15. ASSUME UNCHANGED vars PROVE TypeOK'
  BY <1>15 DEF vars, submitVars, chainVars, history
<1> QED
  BY <1>1, <1>2, <1>3, <1>4, <1>5, <1>6, <1>7, <1>8, <1>9, <1>10, <1>11,
     <1>12, <1>13, <1>14, <1>15
  DEF Next, PriceLoop, SubmitLoop, Block, Fault

\* The types of all variables of the feeder and of what it sees of the chain.
THEOREM TypeCorrect == Spec => []TypeOK
  BY TypeInit, TypeStep, PTL DEF Spec

----------------------------------------------------------------------------
(***************************************************************************)
(* The inductive invariant behind ResyncedInSync and                       *)
(* UndisturbedOncePerWindow.                                               *)
(***************************************************************************)

\* Between calls the window of the last accepted batch is lastWindow, and a
\* call is never for lastWindow.
WindowsAgree ==
    /\ job.pc \in {"send", "request", "accepted", "rejected"} => job.window # lastWindow
    /\ undisturbed /\ job.pc = "accepted" => acceptedFor = job.window
    /\ undisturbed /\ job.pc # "accepted" => acceptedFor = lastWindow

\* A process that is down is in no call and has no window.
DownIdle == ~running => job.pc = "wait" /\ lastWindow = -1

\* ResyncedInSync, by cases.
InSync ==
    resynced /\ running =>
       /\ job.pc = "accepted" => accSeq + Len(mempool) = seq + 1
       /\ job.pc # "accepted" => accSeq + Len(mempool) = seq

IInv == TypeOK /\ WindowsAgree /\ DownIdle /\ InSync

\* An attempt that failed continues the call or ends it.
LEMMA AgainPc ==
    ASSUME job \in JobType
    PROVE  \/ Again.pc = "send" /\ Again.window = job.window
           \/ Again.pc = "wait"
  BY DEF JobType, Again, Idle

\* The initial state satisfies the invariant.
LEMMA InvInit == ASSUME Init PROVE IInv
  BY TypeInit DEF Init, IInv, WindowsAgree, DownIdle, InSync, Idle

\* Every step of the feeder, of the node and of the faults keeps the invariant.
LEMMA InvStep == ASSUME IInv, [Next]_vars PROVE IInv'
<1>t. TypeOK'
  BY TypeStep DEF IInv
<1>j. job \in JobType
  BY DEF IInv, TypeOK, JobType
<1>a. \/ Again.pc = "send" /\ Again.window = job.window
      \/ Again.pc = "wait"
  BY <1>j, AgainPc
<1> DEFINE Rest == WindowsAgree /\ DownIdle /\ InSync
<1> USE DEF IInv
<1>1. ASSUME Start PROVE Rest'
  <2>1. job'.pc = "wait" /\ running' /\ ~running /\ lastWindow' = lastWindow
    BY <1>1 DEF Start, Idle, DownIdle
  <2>2. undisturbed => acceptedFor = lastWindow
    BY <2>1 DEF WindowsAgree, DownIdle
  <2>3. resynced' => accSeq + Len(mempool) = accSeq
    BY <1>1 DEF Start, TypeOK
  <2> QED BY <1>1, <2>1, <2>2, <2>3 DEF Start, chainVars, WindowsAgree, DownIdle, InSync
<1>2. ASSUME NEW p \in Pairs, FetchPair(p) PROVE Rest'
  BY <1>2 DEF FetchPair, submitVars, chainVars, history, WindowsAgree, DownIdle, InSync
<1>3. ASSUME PollHeight PROVE Rest'
  BY <1>3 DEF PollHeight, Idle, chainVars, history, WindowsAgree, DownIdle, InSync
<1>4. ASSUME MaybeSubmit PROVE Rest'
  <2>1. \/ job'.pc = "wait"
        \/ job'.pc = "send" /\ job'.window = Window /\ Window # lastWindow
    <3> HIDE DEF Window, FreshPairs
    <3> QED BY <1>4, <1>j DEF MaybeSubmit, Idle, JobType
  <2> QED BY <1>4, <2>1 DEF MaybeSubmit, chainVars, history, WindowsAgree, DownIdle, InSync
<1>5. ASSUME SubmitFeeds PROVE Rest'
  <2>1. \/ job'.pc = "wait"
        \/ job'.pc \in {"send", "request"} /\ job'.window = job.window
    BY <1>5, <1>a, <1>j DEF SubmitFeeds, JobType
  <2> QED BY <1>5, <2>1 DEF SubmitFeeds, chainVars, history, WindowsAgree, DownIdle, InSync
<1>6. ASSUME ReceiveAccepted PROVE Rest'
  BY <1>6 DEF ReceiveAccepted, RecordAccepted, Idle, chainVars, history, WindowsAgree, DownIdle, InSync
<1>7. ASSUME ReceiveRejected PROVE Rest'
  <2>1. resynced' => accSeq + Len(mempool) = accSeq
    <3>1. resynced' => mempool = << >>
      BY <1>7 DEF ReceiveRejected
    <3>2. mempool = << >> => accSeq + Len(mempool) = accSeq
      BY DEF TypeOK
    <3> QED BY <3>1, <3>2
  <2>2. /\ running /\ running' /\ job.pc = "rejected" /\ job' = Again /\ seq' = accSeq
        /\ UNCHANGED <<lastWindow, acceptedFor, undisturbed, accSeq, mempool>>
    BY <1>7 DEF ReceiveRejected, RefreshAccount, chainVars
  <2>3. WindowsAgree'
    BY <1>a, <2>2 DEF WindowsAgree
  <2>4. DownIdle'
    BY <2>2 DEF DownIdle
  <2>5. InSync'
    <3>1. job'.pc # "accepted"
      BY <1>a, <2>2
    <3> QED BY <2>1, <2>2, <3>1 DEF InSync
  <2> QED BY <2>3, <2>4, <2>5
<1>8. ASSUME HandleRequest PROVE Rest'
  <2>1. running
    BY <1>8 DEF HandleRequest, DownIdle
  <2>2. job'.window = job.window
    BY <1>8, <1>j DEF HandleRequest, JobType
  <2>3. ASSUME seq = CheckSeq PROVE Rest'
    <3>1. job'.pc = "accepted" /\ acceptedFor' = job.window
      BY <1>8, <2>3, <1>j DEF HandleRequest, JobType
    <3>2. Len(mempool') = Len(mempool) + 1
      BY <1>8, <2>3 DEF HandleRequest, TypeOK
    <3>3. accSeq' + Len(mempool') = seq' + 1
      BY <1>8, <2>3, <3>2 DEF HandleRequest, CheckSeq, TypeOK
    <3> QED BY <1>8, <2>1, <2>2, <3>1, <3>3 DEF HandleRequest, WindowsAgree, DownIdle, InSync
  <2>4. ASSUME seq # CheckSeq PROVE Rest'
    <3>1. ~resynced
      BY <1>8, <2>1, <2>4 DEF HandleRequest, CheckSeq, InSync
    <3>2. job'.pc = "rejected"
      BY <1>8, <2>4, <1>j DEF HandleRequest, JobType
    <3>3. /\ job.pc = "request"
          /\ UNCHANGED <<running, lastWindow, acceptedFor, undisturbed, resynced>>
      BY <1>8, <2>4 DEF HandleRequest
    <3> QED BY <2>1, <2>2, <3>1, <3>2, <3>3 DEF WindowsAgree, DownIdle, InSync
  <2> QED BY <2>3, <2>4
<1>9. ASSUME NEW n \in 0 .. Len(mempool), NEW p \in ParamChoices, CommitBlock(n, p) PROVE Rest'
  <2>1. Len(mempool') = Len(mempool) - n
    BY <1>9, RestOfMempool DEF CommitBlock, TypeOK
  <2>t. accSeq \in Nat /\ Len(mempool) \in Nat
    BY DEF TypeOK
  <2>2. accSeq' + Len(mempool') = accSeq + Len(mempool)
    <3>1. accSeq' = accSeq + n
      BY <1>9 DEF CommitBlock
    <3> QED BY <2>1, <2>t, <3>1
  <2> QED BY <1>9, <2>2 DEF CommitBlock, submitVars, history, WindowsAgree, DownIdle, InSync
<1>10. ASSUME NEW p \in Pairs, Expire(p) PROVE Rest'
  BY <1>10 DEF Expire, submitVars, chainVars, history, WindowsAgree, DownIdle, InSync
<1>11. ASSUME BreakCall PROVE Rest'
  <2>1. /\ undisturbed' => undisturbed /\ job.pc # "accepted"
        /\ resynced' => resynced /\ job.pc # "accepted"
    BY <1>11 DEF BreakCall
  <2>2. job.pc # "wait" /\ job'.pc \in {"send", "wait"} /\ running'
    BY <1>11, <1>a DEF BreakCall, InCall
  <2>3. job'.pc = "send" => job'.window = job.window
    BY <1>11, <1>a DEF BreakCall
  <2>4. UNCHANGED <<seq, lastWindow, acceptedFor, accSeq, mempool>> /\ running /\ InCall
    BY <1>11 DEF BreakCall, chainVars
  <2>5. WindowsAgree'
    BY <2>1, <2>2, <2>3, <2>4 DEF WindowsAgree, InCall
  <2>6. DownIdle'
    BY <2>2 DEF DownIdle
  <2>7. InSync'
    BY <2>1, <2>2, <2>4 DEF InSync
  <2> QED BY <2>5, <2>6, <2>7
<1>12. ASSUME RefuseRequest PROVE Rest'
  <2>1. job'.pc = "rejected" /\ job'.window = job.window
    BY <1>12, <1>j DEF RefuseRequest, JobType
  <2> QED BY <1>12, <2>1 DEF RefuseRequest, chainVars, history, WindowsAgree, DownIdle, InSync
<1>13. ASSUME NodeRestart PROVE Rest'
  <2>1. /\ undisturbed' => undisturbed /\ job.pc # "accepted"
        /\ resynced' => resynced /\ mempool' = mempool /\ job.pc # "accepted"
    BY <1>13 DEF NodeRestart
  <2>2. \/ job' = job
        \/ InCall /\ job'.pc = "wait"
        \/ InCall /\ job'.pc = "send" /\ job'.window = job.window
    BY <1>13, <1>a DEF NodeRestart
  <2>3. UNCHANGED <<running, seq, lastWindow, acceptedFor, accSeq>> /\ mempool' = << >>
    BY <1>13 DEF NodeRestart
  <2>4. WindowsAgree'
    <3>1. ASSUME job' = job PROVE WindowsAgree'
      BY <2>1, <2>3, <3>1 DEF WindowsAgree
    <3>2. ASSUME InCall, job'.pc = "wait" PROVE WindowsAgree'
      BY <2>1, <2>3, <3>2 DEF WindowsAgree
    <3>3. ASSUME InCall, job'.pc = "send", job'.window = job.window PROVE WindowsAgree'
      BY <2>1, <2>3, <3>3 DEF WindowsAgree, InCall
    <3> QED BY <2>2, <3>1, <3>2, <3>3
  <2>5. DownIdle'
    BY <2>2, <2>3 DEF DownIdle, InCall
  <2>6. InSync'
    BY <2>1, <2>2, <2>3 DEF InSync
  <2> QED BY <2>4, <2>5, <2>6
<1>14. ASSUME Crash PROVE Rest'
  BY <1>14 DEF Crash, Idle, chainVars, WindowsAgree, DownIdle, InSync
<1>15. ASSUME UNCHANGED vars PROVE Rest'
  BY <1>15 DEF vars, submitVars, chainVars, history, WindowsAgree, DownIdle, InSync
<1>16. Rest'
  BY <1>1, <1>2, <1>3, <1>4, <1>5, <1>6, <1>7, <1>8, <1>9, <1>10, <1>11,
     <1>12, <1>13, <1>14, <1>15
  DEF Next, PriceLoop, SubmitLoop, Block, Fault
<1> QED BY <1>t, <1>16

\* From a read of the account with nothing pending on, whatever faults came
\* before it, the local sequence is the one CheckTx expects, until an acceptance
\* is hidden, pending transactions are lost, or the account is read again
\* while some are pending.
THEOREM SequenceInSync == Spec => []ResyncedInSync
<1>1. IInv => ResyncedInSync
  BY DEF IInv, InSync, ResyncedInSync, CheckSeq
<1> QED BY <1>1, InvInit, InvStep, PTL DEF Spec

\* Until an acceptance is hidden from the feeder, a step that gets a batch
\* accepted is for a window that has none.
LEMMA OnceStep ==
    ASSUME IInv, [Next]_vars, undisturbed, Len(mempool') > Len(mempool)
    PROVE  job.window # acceptedFor
<1>t. Len(mempool) \in Nat /\ mempool \in Seq(SUBSET Pairs)
  BY DEF IInv, TypeOK
<1>1. ASSUME NEW n \in 0 .. Len(mempool), NEW p \in ParamChoices, CommitBlock(n, p) PROVE FALSE
  BY <1>1, <1>t, RestOfMempool DEF CommitBlock
<1>2. ASSUME NodeRestart PROVE FALSE
  BY <1>2, <1>t DEF NodeRestart
<1>3. ASSUME mempool' = mempool PROVE FALSE
  BY <1>3, <1>t
<1>4. HandleRequest
  BY <1>1, <1>2, <1>3 DEF Next, PriceLoop, SubmitLoop, Block, Fault, Start, FetchPair,
     PollHeight, MaybeSubmit, SubmitFeeds, ReceiveAccepted, ReceiveRejected, Expire,
     BreakCall, RefuseRequest, Crash, vars, chainVars
<1> QED BY <1>4 DEF HandleRequest, IInv, WindowsAgree

\* Until an acceptance is hidden from the feeder, no window gets two accepted
\* batches, whatever else fails.
THEOREM OncePerWindow == Spec => UndisturbedOncePerWindow
<1>1. IInv /\ [Next]_vars =>
        [undisturbed /\ Len(mempool') > Len(mempool) => job.window # acceptedFor]_vars
  BY OnceStep
<1> QED BY <1>1, InvInit, InvStep, PTL DEF Spec, UndisturbedOncePerWindow
=============================================================================
