------------------------------- MODULE Feeder -------------------------------
(***************************************************************************)
(* The feeder sidecar of one validator: a price loop that caches medians,  *)
(* a submit loop that broadcasts the fresh ones once per vote window, and  *)
(* the node it talks to over gRPC.                                         *)
(*                                                                         *)
(* Of a cached price only its sign is kept, which ValidateBasic tells      *)
(* apart; an entry that Fresh does not return is None: it was never set,   *)
(* it is marked unhealthy, or it is older than max_quote_age.  A           *)
(* transaction is the set of pairs it feeds; the i-th in the mempool has   *)
(* the i-th sequence after the committed one.                              *)
(*                                                                         *)
(* Faults (providers, connection, node, feeder, governance) happen before  *)
(* block MaxHeight; the vote window that begins there is quiet and does    *)
(* not end.                                                                *)
(***************************************************************************)
EXTENDS Integers, Sequences, FiniteSets

CONSTANTS
    Pairs,         \* cfg.Pairs
    Sources,       \* how many enabled providers have a symbol for the pair
    Unchecked,     \* the pairs Binance quotes, whose sign is not checked
    MinProviders,  \* cfg.Quality.MinProviders
    Retries,       \* cfg.BroadcastRetry
    ConfigWindow,  \* cfg.VoteWindow, 0 to ask the chain
    ParamChoices,  \* vote_window and accepted pairs governance chooses from
    None,          \* no price that Fresh would return
    MaxHeight      \* bound: the block at which the last window begins

ASSUME FeederAssumption ==
    /\ Pairs # {} /\ Unchecked \subseteq Pairs
    /\ Sources \in [Pairs -> Nat]
    /\ MinProviders \in Nat \ {0}
    /\ MaxHeight \in Nat
    /\ Retries \in Int /\ ConfigWindow \in Int
    /\ ParamChoices \subseteq [voteWindow : Nat \ {0}, accept : SUBSET Pairs]

VARIABLES
    running,      \* the feeder process is up
    cache,        \* the fresh healthy median of a pair, or None
    seq,          \* GRPCBroadcaster.seq
    voteWindow,   \* SubmitLoop.voteWindow
    lastWindow,   \* SubmitLoop.lastWindow
    job,          \* the submit loop: the call of maybeSubmit it is in
    height,       \* the last committed block
    params,       \* the chain's oracle parameters
    accSeq,       \* the committed sequence of the feeder's account
    mempool,      \* its accepted transactions that no block contains yet
    fed,          \* its pairs with a feed in the open window
    acceptedFor,  \* history: the window of the last accepted transaction
    undisturbed,  \* history: no acceptance was ever hidden from the feeder
    resynced      \* history: nor since it read its sequence with nothing
                  \* pending, and since then no transaction was lost

submitVars == <<seq, voteWindow, lastWindow, job>>
chainVars == <<height, params, accSeq, mempool, fed>>
history == <<acceptedFor, undisturbed, resynced>>
vars == <<running, cache, submitVars, chainVars, history>>

Idle == [pc |-> "wait", height |-> 0, window |-> 0, pairs |-> {},
         valid |-> TRUE, attempt |-> 0]

\* The submit loop waits for an answer of BroadcastTx or of the account query.
InCall == job.pc \in {"request", "accepted", "rejected"}

\* Faults still happen.
Faulty == height < MaxHeight

----------------------------------------------------------------------------
\* New: the account's committed sequence and, unless the configuration sets
\* it, the chain's vote window are read; the cache is empty.
Start ==
    /\ ~running
    /\ running' = TRUE
    /\ cache' = [p \in Pairs |-> None]
    /\ seq' = accSeq
    /\ voteWindow' = IF ConfigWindow > 0 THEN ConfigWindow ELSE params.voteWindow
    /\ lastWindow' = -1
    /\ job' = Idle
    /\ resynced' = (mempool = << >>)
    /\ UNCHANGED <<chainVars, acceptedFor, undisturbed>>

----------------------------------------------------------------------------
\* CrossSourceMedian fails for lack of sources, or because sources fail or
\* disagree.  Only Binance reports a quote that is not positive.
Covered(p) == Sources[p] >= MinProviders

Medians(p) ==
    {m \in {None, "positive", "nonpositive"} :
        /\ ~Covered(p) => m = None
        /\ m = "nonpositive" => p \in Unchecked
        /\ Covered(p) /\ ~Faulty => m = "positive"}

\* PriceLoop.tick fetches one pair after the other; here in any order.
\* Cache.Set with the time at which the round began, or Cache.MarkUnhealthy.
FetchPair(p) ==
    /\ running
    /\ \E m \in Medians(p) : cache' = [cache EXCEPT ![p] = m]
    /\ UNCHANGED <<running, submitVars, chainVars, history>>

\* A cached median gets older than max_quote_age, because rounds take long.
Expire(p) ==
    /\ Faulty
    /\ cache[p] # None
    /\ cache' = [cache EXCEPT ![p] = None]
    /\ UNCHANGED <<running, submitVars, chainVars, history>>

----------------------------------------------------------------------------
\* SubmitLoop.Run: the height query succeeds.  One that fails changes nothing.
PollHeight ==
    /\ running
    /\ job.pc = "wait"
    /\ job' = [Idle EXCEPT !.pc = "polled", !.height = height]
    /\ UNCHANGED <<running, cache, seq, voteWindow, lastWindow,
                   chainVars, history>>

Fresh(p) == cache[p] # None
FreshPairs == {p \in Pairs : Fresh(p)}

\* Mutant: the window of the block the feeds will be in, counted from one.
WindowAhead == (job.height + 1) \div voteWindow
Window == job.height \div voteWindow

\* maybeSubmit up to the first broadcast.  The code reads the cache pair by pair;
\* fetches of different pairs commute and come in any order, so that whatever
\* mixture it reads is also the cache at one moment.
MaybeSubmit ==
    /\ running
    /\ job.pc = "polled"
    /\ job' = IF Window = lastWindow \/ FreshPairs = {}
              THEN Idle
              ELSE [job EXCEPT !.pc = "send", !.height = 0, !.window = Window,
                               !.pairs = FreshPairs,
                               !.valid = \A p \in FreshPairs : cache[p] = "positive",
                               !.attempt = 1]
    /\ UNCHANGED <<running, cache, seq, voteWindow, lastWindow,
                   chainVars, history>>

Attempts == IF Retries < 1 THEN 1 ELSE Retries

\* Mutant: the attempts are not counted.
AgainUncounted == [job EXCEPT !.pc = "send"]

\* An attempt failed: the next one, or maybeSubmit gives up.
Again ==
    IF job.attempt < Attempts
    THEN [job EXCEPT !.pc = "send", !.attempt = @ + 1] ELSE Idle

\* SubmitFeeds up to BroadcastTx.  buildMsgs refuses the batch for one
\* non-positive price.
SubmitFeeds ==
    /\ running
    /\ job.pc = "send"
    /\ job' = IF job.valid THEN [job EXCEPT !.pc = "request"] ELSE Again
    /\ UNCHANGED <<running, cache, seq, voteWindow, lastWindow,
                   chainVars, history>>

\* Mutant: the window is not recorded.
AcceptedForgotten == seq' = seq + 1 /\ lastWindow' = lastWindow

RecordAccepted == seq' = seq + 1 /\ lastWindow' = job.window

\* Code 0: SubmitFeeds counts the sequence and maybeSubmit the window.
ReceiveAccepted ==
    /\ running
    /\ job.pc = "accepted"
    /\ RecordAccepted
    /\ job' = Idle
    /\ UNCHANGED <<running, cache, voteWindow, chainVars, history>>

\* Mutants: the account is not read again, or the last sequence it used is
\* taken for the next one.
RefreshNothing == seq' = seq
RefreshLastUsed == seq' = accSeq - 1

\* refreshAccount reads the committed sequence, transactions that are still
\* in the mempool not counted.
RefreshAccount == seq' = accSeq

\* Another code: the account is read again, the attempt has failed.
ReceiveRejected ==
    /\ running
    /\ job.pc = "rejected"
    /\ RefreshAccount
    /\ job' = Again
    /\ resynced' = (mempool = << >>)
    /\ UNCHANGED <<running, cache, voteWindow, lastWindow,
                   chainVars, acceptedFor, undisturbed>>

----------------------------------------------------------------------------
\* The node.  CheckTx expects the sequence after the pending transactions.
CheckSeq == accSeq + Len(mempool)

HandleRequest ==
    /\ job.pc = "request"
    /\ IF seq = CheckSeq
       THEN /\ mempool' = Append(mempool, job.pairs)
            /\ job' = [job EXCEPT !.pc = "accepted"]
            /\ acceptedFor' = job.window
       ELSE /\ job' = [job EXCEPT !.pc = "rejected"]
            /\ UNCHANGED <<mempool, acceptedFor>>
    /\ UNCHANGED <<running, cache, seq, voteWindow, lastWindow,
                   height, params, accSeq, fed, undisturbed, resynced>>

\* A block with the first n pending transactions, at the end of which
\* governance may change the parameters.  A batch is one transaction: a pair
\* that is not accepted fails all of it, after its sequence was used up.  The
\* feeds of a window that ends with the block are consumed and deleted.
Landed(n) == UNION {mempool[i] : i \in {k \in 1 .. n : mempool[k] \subseteq params.accept}}

CommitBlock(n, p) ==
    /\ accSeq' = accSeq + n
    /\ mempool' = SubSeq(mempool, n + 1, Len(mempool))
    /\ height' = IF Faulty THEN height + 1 ELSE height
    /\ params' = p
    /\ fed' = IF Faulty /\ (height + 1) % p.voteWindow = 0
              THEN {} ELSE fed \cup Landed(n)
    /\ UNCHANGED <<running, cache, submitVars, history>>

Block ==
    \E n \in 0 .. Len(mempool), p \in ParamChoices :
       /\ p # params => Faulty
       /\ CommitBlock(n, p)

----------------------------------------------------------------------------
(* Faults.                                                                 *)

\* The connection breaks: the request is lost, or its answer.
BreakCall ==
    /\ Faulty /\ running /\ InCall
    /\ job' = Again
    /\ undisturbed' = (undisturbed /\ job.pc # "accepted")
    /\ resynced' = (resynced /\ job.pc # "accepted")
    /\ UNCHANGED <<running, cache, seq, voteWindow, lastWindow,
                   chainVars, acceptedFor>>

\* CheckTx refuses the transaction for another reason than its sequence.
RefuseRequest ==
    /\ Faulty /\ job.pc = "request"
    /\ job' = [job EXCEPT !.pc = "rejected"]
    /\ UNCHANGED <<running, cache, seq, voteWindow, lastWindow,
                   chainVars, history>>

\* The node restarts without its mempool.
NodeRestart ==
    /\ Faulty
    /\ mempool' = << >>
    /\ job' = IF InCall THEN Again ELSE job
    /\ undisturbed' = (undisturbed /\ job.pc # "accepted")
    /\ resynced' = (resynced /\ mempool = << >> /\ job.pc # "accepted")
    /\ UNCHANGED <<running, cache, seq, voteWindow, lastWindow,
                   height, params, accSeq, fed, acceptedFor>>

\* The feeder dies; what it knew is gone.
Crash ==
    /\ Faulty /\ running
    /\ running' = FALSE
    /\ cache' = [p \in Pairs |-> None]
    /\ lastWindow' = -1
    /\ job' = Idle
    /\ undisturbed' = FALSE
    /\ resynced' = FALSE
    /\ UNCHANGED <<seq, voteWindow, chainVars, acceptedFor>>

----------------------------------------------------------------------------
Init ==
    /\ running = FALSE
    /\ cache = [p \in Pairs |-> None]
    /\ seq = 0
    /\ params \in ParamChoices
    /\ voteWindow = params.voteWindow
    /\ lastWindow = -1
    /\ job = Idle
    /\ height = 0
    /\ accSeq = 0
    /\ mempool = << >>
    /\ fed = {}
    /\ acceptedFor = -1
    /\ undisturbed = TRUE
    /\ resynced = FALSE

PriceLoop == \E p \in Pairs : FetchPair(p)
SubmitLoop == PollHeight \/ MaybeSubmit \/ SubmitFeeds \/ ReceiveAccepted \/ ReceiveRejected
Fault == (\E p \in Pairs : Expire(p)) \/ BreakCall \/ RefuseRequest \/ NodeRestart \/ Crash

Next ==
    \/ Start \/ PriceLoop \/ SubmitLoop
    \/ HandleRequest \/ Block
    \/ Fault

Spec == Init /\ [][Next]_vars

\* The process is restarted, its two loops are goroutines of their own, the
\* node answers, and pending transactions get into blocks.
FullBlock == CommitBlock(Len(mempool), params)

FairSpec ==
    /\ Spec
    /\ WF_vars(Start)
    /\ \A p \in Pairs : WF_vars(FetchPair(p))
    /\ WF_vars(SubmitLoop)
    /\ WF_vars(HandleRequest)
    /\ WF_vars(FullBlock)

----------------------------------------------------------------------------
Steps == {"wait", "polled", "send", "request", "accepted", "rejected"}

\* Every variable has its type.
TypeOK ==
    /\ running \in BOOLEAN /\ undisturbed \in BOOLEAN /\ resynced \in BOOLEAN
    /\ cache \in [Pairs -> {None, "positive", "nonpositive"}]
    /\ seq \in Nat /\ accSeq \in Nat
    /\ voteWindow \in Nat \ {0}
    /\ lastWindow \in Nat \cup {-1} /\ acceptedFor \in Nat \cup {-1}
    /\ job \in [pc : Steps, height : Nat, window : Nat, pairs : SUBSET Pairs,
                valid : BOOLEAN, attempt : Nat]
    /\ height \in 0 .. MaxHeight
    /\ params \in ParamChoices
    /\ mempool \in Seq(SUBSET Pairs)
    /\ fed \subseteq Pairs

\* Whatever happened before, once the feeder has read the account's sequence
\* with nothing pending, at its start or after a refusal, the sequence it counts
\* is the one CheckTx expects, through any number of windows, pending
\* transactions, lost requests, refusals that come with nothing pending and
\* blocks, until an acceptance is hidden from it or a node loses its pending
\* transactions.  A read while transactions are pending takes a sequence that
\* is too low (refreshAccount): the next one that counts is after their block.
ResyncedInSync ==
    resynced /\ running =>
       CheckSeq = IF job.pc = "accepted" THEN seq + 1 ELSE seq

\* The comment on SubmitLoop, as far as it is true: until an acceptance is
\* hidden from the feeder, by a lost answer or its crash, no second batch is
\* accepted for one window, also when refusals, resynchronisations or a node's
\* restart come between.
UndisturbedOncePerWindow ==
    [][undisturbed /\ Len(mempool') > Len(mempool) => job.window # acceptedFor]_vars

\* The feeder's idea of the windows is the chain's, and every configured pair
\* is accepted.
Agreed == voteWindow = params.voteWindow /\ Pairs \subseteq params.accept

\* maybeSubmit returns: no fault makes it retry for ever.
MaybeSubmitReturns == (job.pc # "wait") ~> (job.pc = "wait")

\* Whatever faults came before, in a window without any some feeds get into
\* the chain: a drifted sequence is resynchronised, a dead process replaced,
\* a window is never taken for one that was served.
QuietWindowFed == <>[]Agreed /\ (\E p \in Pairs : Covered(p)) => <>[](fed # {})

\* A pair whose price stays fresh for all of such a window gets its feed.
HealthyPairFed ==
    \A p \in Pairs :
       <>[]Agreed /\ [](~Faulty => Fresh(p)) => <>[](p \in fed)
=============================================================================
