-------------------------------- MODULE Twap --------------------------------
(***************************************************************************)
(* x/oracle over time: the published price of one pair, its age, and the   *)
(* history from which GetTWAP averages it.                                 *)
(*                                                                         *)
(* Which price a window closes with, or none, is Oracle's business and is  *)
(* chosen freely here.  Pairs do not interact: every key below starts with *)
(* the pair.  Time is counted in units; decimals are those of Aggregation. *)
(***************************************************************************)
EXTENDS Aggregation, KVStore

CONSTANTS
    Prices,      \* published prices
    Retention,   \* the 24 hours for which entries are kept
    AgeChoices,  \* values of max_price_age that governance proposes
    Windows,     \* values of window_seconds that are asked for
    MaxSeconds,  \* the seconds that overflow a time.Duration
    MaxTime      \* bound: block times

ASSUME TwapAssumption ==
    /\ Prices # {} /\ Prices \subseteq Nat \ {0}
    /\ Retention \in Nat \ {0}
    /\ AgeChoices \subseteq Int
    /\ Windows \subseteq Nat \ {0}
    /\ MaxSeconds \in Nat \ {0}
    /\ MaxTime \in 1 .. MaxUnits
    /\ \A p \in Prices : p * MaxTime <= MaxUnits   \* no LegacyDec overflows

VARIABLES
    now,        \* the time of the current block
    phase,      \* "deliver", or "end" after the EndBlocker
    listed,     \* params: the pair is in accept_list
    maxAge,     \* params: max_price_age
    price,      \* 0x02: the published price and its time, at most one
    entries,    \* 0x03: time -> price
    published   \* history: every entry since genesis or the last restart

paramVars == <<listed, maxAge>>
vars == <<now, phase, paramVars, price, entries, published>>

----------------------------------------------------------------------------
BeginBlock ==
    /\ phase = "end"
    /\ \E t \in now + 1 .. MaxTime : now' = t
    /\ phase' = "deliver"
    /\ UNCHANGED <<paramVars, price, entries, published>>

\* Mutant: max_price_age is not validated.
ValidAgeUnchecked(age) == TRUE
ValidAge(age) == age > 0

\* x/gov executes MsgUpdateParams before the oracle's EndBlocker.
UpdateParams ==
    /\ phase = "deliver"
    /\ \E age \in AgeChoices : ValidAge(age) /\ maxAge' = age
    /\ listed' \in BOOLEAN
    /\ UNCHANGED <<now, phase, price, entries, published>>

AppendTWAPEntry(store, p) == Put(store, now, p)

\* Mutant: the entry at the cutoff is pruned too.
PruneThroughCutoff(store, cutoff) ==
    [t \in {u \in DOMAIN store : u > cutoff} |-> store[t]]

PruneTWAPOlderThan(store, cutoff) ==
    [t \in {u \in DOMAIN store : u >= cutoff} |-> store[t]]

\* The EndBlocker for a pair with a quorum at the end of a window.
Aggregate(p) ==
    /\ phase = "deliver"
    /\ listed
    /\ price' = {[price |-> p, time |-> now]}
    /\ entries' = PruneTWAPOlderThan(AppendTWAPEntry(entries, p), now - Retention)
    /\ published' = Put(published, now, p)
    /\ phase' = "end"
    /\ UNCHANGED <<now, paramVars>>

\* The EndBlocker otherwise: nothing is pruned either.
NoAggregate ==
    /\ phase = "deliver"
    /\ phase' = "end"
    /\ UNCHANGED <<now, paramVars, price, entries, published>>

\* Export and restart: the price survives, the history does not.  A price of
\* a de-listed pair or from after the genesis time stops the import.
ExportAndRestart ==
    /\ phase = "end"
    /\ price # {} => listed
    /\ \E t \in 0 .. MaxTime :
          /\ \A ap \in price : ap.time <= t
          /\ now' = t
    /\ entries' = EmptyStore
    /\ published' = EmptyStore
    /\ phase' = "deliver"
    /\ UNCHANGED <<paramVars, price>>

Init ==
    /\ now = 0
    /\ phase = "deliver"
    /\ listed \in BOOLEAN
    /\ maxAge \in {age \in AgeChoices : ValidAge(age)}
    /\ price = {}
    /\ entries = EmptyStore
    /\ published = EmptyStore

Next ==
    \/ BeginBlock
    \/ UpdateParams
    \/ \E p \in Prices : Aggregate(p)
    \/ NoAggregate
    \/ ExportAndRestart

Spec == Init /\ [][Next]_vars

----------------------------------------------------------------------------
Ok(p) == [err |-> "", price |-> p]
Err(e) == [err |-> e, price |-> 0]

\* time.Duration(seconds) * time.Second, which wraps around.
AsDuration(seconds) ==
    ((seconds + MaxSeconds) % (2 * MaxSeconds)) - MaxSeconds

\* What GetPrice and the Price query return.
GetAggregatedPrice ==
    IF ~listed THEN Err("ErrPairNotAccepted")
    ELSE IF price = {} THEN Err("ErrNoPrice")
    ELSE LET ap == CHOOSE a \in price : TRUE
         IN  IF now - ap.time > AsDuration(maxAge) THEN Err("ErrStalePrice") ELSE Ok(ap.price)

WindowStart(window) == now - AsDuration(window)

\* Mutant: the scan does not stop at the start of the window.
CollectedAll(window) == {t \in DOMAIN entries : t <= now}

\* The entries GetTWAP collects: those in the window and the last one at or
\* before its start.
Collected(window) ==
    LET past == {t \in DOMAIN entries : t <= now}
        before == {t \in past : t <= WindowStart(window)}
    IN  {t \in past : t > WindowStart(window) \/ t = Max(before)}

\* Mutant: an entry is weighed by the time since the entry before it.
SinceEarlier(S, t) ==
    IF \E u \in S : u < t THEN t - Max({u \in S : u < t}) ELSE 0

\* How long the entry was the newest one, the first of them from its own time
\* on, also when that is before the window.
Duration(S, t) ==
    (IF \E u \in S : u > t THEN Min({u \in S : u > t}) ELSE now) - t

\* Mutant: staleness is judged by the first entry collected.
NewestCollectedFirst(S) == Min(S)
NewestCollected(S) == Max(S)

GetTWAP(window) ==
    LET S == Collected(window)
        total == Weight([t \in S |-> Duration(S, t)], S)
        sum == Weight([t \in S |-> entries[t] * Duration(S, t)], S)
    IN  IF ~listed THEN Err("ErrPairNotAccepted")
        ELSE IF S = {} THEN Err("ErrNoTWAPData")
        ELSE IF now - NewestCollected(S) > AsDuration(maxAge) THEN Err("ErrStalePrice")
        ELSE IF Cardinality(S) = 1 THEN Ok(entries[Max(S)])
        ELSE IF total = 0 THEN Err("ErrNoTWAPData")
        ELSE Ok(Quo(sum, total * Prec))

----------------------------------------------------------------------------
\* Type correctness; max_price_age stays positive, and nothing in the stores is
\* from after the current block.
TypeOK ==
    /\ now \in 0 .. MaxTime
    /\ phase \in {"deliver", "end"}
    /\ listed \in BOOLEAN
    /\ maxAge \in AgeChoices /\ maxAge > 0
    /\ \E p \in Prices, t \in 0 .. now : price \subseteq {[price |-> p, time |-> t]}
    /\ IsStore(entries, 0 .. now, Prices)
    /\ IsStore(published, 0 .. now, Prices)

\* The price that prevailed at time t, when one had been published.
Prevailing(t) == published[Max({u \in DOMAIN published : u <= t})]

\* Every price published in the last 24 hours is still in the history, however
\* long the pair had no quorum and whenever the EndBlocker pruned.
WindowRetained ==
    \A t \in DOMAIN published :
        t >= now - Retention => t \in DOMAIN entries /\ entries[t] = published[t]

\* GetTWAP and GetAggregatedPrice judge staleness from different stores (the
\* history and the published price).  They agree: a TWAP is available exactly
\* when the price is, except between an import, which has no history, and the
\* first price after it.
TwapFreshAsPrice ==
    \A window \in Windows :
        GetTWAP(window).err = "" <=>
            /\ GetAggregatedPrice.err = ""
            /\ \A ap \in price : ap.time \in DOMAIN published

\* A TWAP lies between the lowest and the highest price that prevailed at some
\* time of the window: no older price moves it, though the price prevailing at
\* the start of the window is weighed from before the window.
TwapWithinWindow ==
    \A window \in Windows :
        GetTWAP(window).err = "" =>
            LET start == Min({now, WindowStart(window)})
                seen == {Prevailing(t) : t \in {u \in start .. now :
                                    \E v \in DOMAIN published : v <= u}}
            IN  GetTWAP(window).price \in Min(seen) .. Max(seen)

\* A TWAP is, up to one unit of the last decimal, the mean over time of the
\* price that prevailed since the oldest entry GetTWAP collects.
TwapIsMean ==
    \A window \in Windows :
        GetTWAP(window).err = "" =>
            LET from == Min(Collected(window))
                sum == Weight([t \in from .. now - 1 |-> Prevailing(t)], from .. now - 1)
            IN  IF from = now THEN GetTWAP(window).price = Prevailing(now)
                ELSE Abs(GetTWAP(window).price * (now - from) - sum) < now - from

\* The design's TWAP: the entry at or before the start of the window counts
\* from the start of the window on.
ClampedTwap(window) ==
    LET S == Collected(window)
        from(t) == Max({t, WindowStart(window)})
        until(t) == t + Duration(S, t)
    IN  Quo(MapThenSumSet(LAMBDA t : entries[t] * (until(t) - from(t)), S),
            MapThenSumSet(LAMBDA t : until(t) - from(t), S) * Prec)

\* "that pre-window entry contributes from now - window forward (leading
\* interval clamp)", the design says; GetTWAP weighs it from its own time on.
LeadingClamp ==
    \A window \in Windows :
        GetTWAP(window).err = "" /\ Cardinality(Collected(window)) > 1
            => GetTWAP(window).price = ClampedTwap(window)
=============================================================================
