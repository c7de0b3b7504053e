------------------------------- MODULE Serial -------------------------------
(***************************************************************************)
(* Package serial: the Generator that mints channelSerials.                *)
(*                                                                         *)
(* A channelSerial is the string <ts>-<ctr>@<series>, ts and ctr zero-     *)
(* padded to a fixed width, so that comparing two strings of one series    *)
(* compares the pairs <<ts, ctr>> lexicographically.  A serial is          *)
(* therefore that pair here, and Before is the string order.               *)
(*                                                                         *)
(* The clock the generator reads is wall-clock time: it stands still,      *)
(* advances, or steps back between two reads.                              *)
(***************************************************************************)
EXTENDS Naturals, Sequences

CONSTANTS
    MaxCounter,     \* maxCounter: the largest counter that fits its width
    MaxClock,       \* bound: the largest time the clock shows
    MaxMints        \* bound: how many serials are minted

ASSUME SerialAssumption ==
    MaxCounter \in Nat /\ MaxClock \in Nat /\ MaxMints \in Nat

VARIABLES
    clock,          \* what now() returns, in ms
    latestClock,    \* the largest time a Mint has read so far
    gen,            \* [ts, ctr]: lastTs and lastCounter
    minted          \* every serial minted so far, oldest first

serialVars == <<clock, latestClock, gen, minted>>

Generators == [ts : Nat, ctr : 0..MaxCounter]
Serials == Nat \X (0..MaxCounter)

\* Lexicographic comparison of two serials of one series.
Before(a, b) == a[1] < b[1] \/ (a[1] = b[1] /\ a[2] < b[2])

NewGenerator == [ts |-> 0, ctr |-> 0]

\* The serial a generator in state g has last handed out.
SerialOf(g) == <<g.ts, g.ctr>>

\* Faulty MintFrom: a step back of the clock is taken as a new millisecond.
MintFrom_TrustsClock(g, now) ==
    IF now # g.ts THEN [ts |-> now, ctr |-> 0]
                  ELSE [ts |-> g.ts, ctr |-> IF g.ctr < MaxCounter THEN g.ctr + 1 ELSE g.ctr]

(***************************************************************************)
(* The state Mint leaves behind when the clock reads now: a later          *)
(* millisecond resets the counter; the same one, or a clock that stepped   *)
(* back, bumps it; an exhausted counter borrows the next millisecond.      *)
(***************************************************************************)
MintFrom(g, now) ==
    CASE now > g.ts                           -> [ts |-> now, ctr |-> 0]
      [] now <= g.ts /\ g.ctr + 1 <= MaxCounter -> [ts |-> g.ts, ctr |-> g.ctr + 1]
      [] now <= g.ts /\ g.ctr + 1 > MaxCounter  -> [ts |-> g.ts + 1, ctr |-> 0]

-----------------------------------------------------------------------------
SerialInit ==
    /\ clock = 1
    /\ latestClock = 0
    /\ gen = NewGenerator
    /\ minted = <<>>

\* Time moves to any other reading, backwards included.
ClockMoves(t) ==
    /\ t # clock
    /\ clock' = t
    /\ UNCHANGED <<latestClock, gen, minted>>

\* One call of Mint; the generator's mutex makes it atomic.
Mint ==
    /\ Len(minted) < MaxMints
    /\ gen' = MintFrom(gen, clock)
    /\ minted' = Append(minted, SerialOf(gen'))
    /\ latestClock' = IF clock > latestClock THEN clock ELSE latestClock
    /\ UNCHANGED clock

SerialNext == Mint \/ \E t \in 1..MaxClock : ClockMoves(t)

SerialSpec == SerialInit /\ [][SerialNext]_serialVars

-----------------------------------------------------------------------------
\* Every variable has its type; the counter never outgrows its width.
SerialTypeOK ==
    /\ clock \in Nat
    /\ latestClock \in Nat
    /\ gen \in Generators
    /\ minted \in Seq(Serials)

\* Serials minted by one generator are strictly increasing, whatever the
\* clock does and however many are minted in one millisecond: the comment
\* "Lexicographic comparison of channelSerials matches publish order".
StrictlyIncreasing ==
    \A i, j \in 1..Len(minted) : i < j => Before(minted[i], minted[j])

\* The timestamp of a serial runs ahead of the latest clock reading by at
\* most one millisecond per MaxCounter + 1 serials minted, so that "the next
\* real-clock read will catch up" and time-bounded history reads stay close.
BoundedDrift ==
    gen.ts <= latestClock + (Len(minted) \div (MaxCounter + 1))

=============================================================================
