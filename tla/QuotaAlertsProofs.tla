------------------------- MODULE QuotaAlertsProofs -------------------------
(***************************************************************************)
(* Theorems of QuotaAlerts, for any lanes, levels, settings and capacity   *)
(* of the memory of marks.                                                 *)
(***************************************************************************)
EXTENDS QuotaAlerts, FiniteSetTheorems, TLAPS

-----------------------------------------------------------------------------
(* The queue of marks.                                                     *)

\* The order in which the marks entered is a strict order of them, and there
\* are finitely many.
Ordered(q) ==
    /\ q \in Queues
    /\ q.older \subseteq q.keys \X q.keys
    /\ \A k \in q.keys : <<k, k>> \notin q.older
    /\ \A i, j, k \in q.keys : <<i, j>> \in q.older /\ <<j, k>> \in q.older => <<i, k>> \in q.older
    /\ IsFiniteSet(q.keys)

\* A queue that fits the memory.
Fits(q) == Ordered(q) /\ Cardinality(q.keys) <= MaxSent

\* A queue that is not empty has a front.
LEMMA HasFront ==
    ASSUME NEW q, Ordered(q), q.keys # {} PROVE \E k \in Front(q) : k \in q.keys
<1> DEFINE Before(k) == {j \in q.keys : <<j, k>> \in q.older}
           T == {Before(k) : k \in q.keys}
<1>1. T \subseteq FiniteSubsetsOf(q.keys)
  <2> SUFFICES ASSUME NEW k \in q.keys
               PROVE  Before(k) \in SUBSET q.keys /\ IsFiniteSet(Before(k))
    BY DEF FiniteSubsetsOf
  <2>1. Before(k) \in SUBSET q.keys
    OBVIOUS
  <2> HIDE DEF Before
  <2> QED
    BY <2>1, FS_Subset DEF Ordered
<1>2. T # {}
  OBVIOUS
<1>3. IsWellFoundedOn(StrictSubsetOrdering(q.keys), FiniteSubsetsOf(q.keys))
  BY FS_StrictSubsetOrderingWellFounded
<1> HIDE DEF T
<1>4. PICK x \in T : \A y \in T : ~ (<<y, x>> \in StrictSubsetOrdering(q.keys))
  BY <1>1, <1>2, <1>3, WFMin
<1>5. PICK k \in q.keys : x = Before(k)
  BY <1>4 DEF T
<1>6. ASSUME NEW j \in q.keys, <<j, k>> \in q.older PROVE FALSE
  <2>1. Before(j) \subseteq Before(k) /\ j \in Before(k) /\ j \notin Before(j)
    BY <1>6 DEF Ordered
  <2>2. Before(j) \in T /\ Before(k) \in SUBSET q.keys /\ Before(j) \in SUBSET q.keys
    BY DEF T
  <2> HIDE DEF Before
  <2>3. <<Before(j), Before(k)>> \in StrictSubsetOrdering(q.keys)
    BY <2>1, <2>2 DEF StrictSubsetOrdering
  <2> QED
    BY <2>2, <2>3, <1>4, <1>5
<1> QED
  BY <1>6 DEF Front

\* Retaining only some of the marks leaves their order.
LEMMA DropOrdered ==
    ASSUME NEW q, Ordered(q), NEW K
    PROVE  /\ Ordered(Drop(q, K)) /\ Drop(q, K).keys = q.keys \ K
           /\ Cardinality(q.keys) <= MaxSent => Fits(Drop(q, K))
<1>1. Drop(q, K).keys = q.keys \ K
      /\ Drop(q, K).older = {p \in q.older : p[1] \notin K /\ p[2] \notin K}
      /\ Drop(q, K) \in Queues
  BY DEF Drop, Ordered, Queues
<1>2. q.keys \ K \in SUBSET q.keys /\ IsFiniteSet(q.keys)
  BY DEF Ordered
<1>3. IsFiniteSet(q.keys \ K) /\ Cardinality(q.keys \ K) <= Cardinality(q.keys)
  BY <1>2, FS_Subset
<1>4. Cardinality(q.keys \ K) \in Nat /\ Cardinality(q.keys) \in Nat
  BY <1>2, <1>3, FS_CardinalityType
<1>5. Ordered(Drop(q, K))
  BY <1>1, <1>3 DEF Ordered
<1> QED
  BY <1>1, <1>3, <1>4, <1>5, MaxSentIsNat DEF Fits

\* A new mark enters behind all others.
LEMMA PushOrdered ==
    ASSUME NEW q, Ordered(q), NEW k \in Keys, k \notin q.keys
    PROVE  /\ Ordered(Push(q, k)) /\ Push(q, k).keys = q.keys \cup {k}
           /\ Cardinality(Push(q, k).keys) = Cardinality(q.keys) + 1
<1>1. Push(q, k).keys = q.keys \cup {k} /\ Push(q, k).older = q.older \cup (q.keys \X {k})
      /\ Push(q, k) \in Queues
  BY DEF Push, Ordered, Queues
<1>2. IsFiniteSet(q.keys \cup {k}) /\ Cardinality(q.keys \cup {k}) = Cardinality(q.keys) + 1
  BY FS_AddElement DEF Ordered
<1> QED
  BY <1>1, <1>2 DEF Ordered

-----------------------------------------------------------------------------
(* The manager while it handles one window.                                *)

Alerts == Keys \cup {Restored(l) : l \in Lanes}

Managers == [sent : SUBSET Keys, durable : Queues, out : SUBSET Alerts, lost : BOOLEAN]

IsManager(m) == m \in Managers /\ Fits(m.durable)

\* What every stage preserves, from m to n: nothing that was lost or decided
\* on is taken back.
Follows(n, m) ==
    /\ IsManager(n)
    /\ m.lost => n.lost
    /\ m.out \subseteq n.out

\* What a mark does: k is known, nothing else is, and all of what was known
\* still is unless a mark was lost; k is announced if it was not known.
LEMMA MarkSound ==
    ASSUME NEW m, IsManager(m), NEW k \in Keys
    PROVE  /\ Follows(Mark(m, k), m)
           /\ Mark(m, k).sent = m.sent \cup {k}
           /\ Mark(m, k).durable.keys \subseteq m.durable.keys \cup {k}
           /\ Mark(m, k).out = m.out \cup ({k} \ Known(m))
           /\ ~Mark(m, k).lost => Known(Mark(m, k)) = Known(m) \cup {k}
<1> DEFINE longer == Push(m.durable, k)
           popped == IF Cardinality(longer.keys) > MaxSent THEN Front(longer) ELSE {}
           known  == k \in m.durable.keys
           n      == Mark(m, k)
<1>1. /\ n.sent = m.sent \cup {k}
      /\ n.durable = IF known THEN m.durable ELSE Drop(longer, popped)
      /\ n.out = m.out \cup ({k} \ Known(m))
      /\ n.lost = (m.lost \/ (~known /\ ~(popped \subseteq m.sent \cup {k})))
      /\ n = [sent |-> n.sent, durable |-> n.durable, out |-> n.out, lost |-> n.lost]
  BY DEF Mark
<1>2. /\ m.sent \subseteq Keys /\ m.durable \in Queues /\ m.out \subseteq Alerts
      /\ m.lost \in BOOLEAN /\ Fits(m.durable) /\ Ordered(m.durable)
      /\ IsFiniteSet(m.durable.keys) /\ Cardinality(m.durable.keys) <= MaxSent
  BY DEF IsManager, Managers, Fits, Ordered
<1>3. ASSUME ~known
      PROVE  /\ Fits(Drop(longer, popped))
             /\ Drop(longer, popped).keys = (m.durable.keys \cup {k}) \ popped
  <2>1. /\ Ordered(longer) /\ longer.keys = m.durable.keys \cup {k}
        /\ Cardinality(longer.keys) = Cardinality(m.durable.keys) + 1
    BY <1>2, <1>3, PushOrdered
  <2> HIDE DEF longer
  <2>2. Cardinality(m.durable.keys) \in Nat /\ IsFiniteSet(longer.keys)
    BY <1>2, <2>1, FS_CardinalityType DEF Ordered
  <2>3. CASE Cardinality(longer.keys) > MaxSent
    <3>1. popped = Front(longer)
      BY <2>3
    <3>2. longer.keys # {}
      BY <2>1
    <3>3. PICK f \in Front(longer) : f \in longer.keys
      BY <2>1, <3>2, HasFront
    <3>4. longer.keys \ popped \in SUBSET (longer.keys \ {f})
      BY <3>1, <3>3
    <3>5. /\ IsFiniteSet(longer.keys \ {f})
          /\ Cardinality(longer.keys \ {f}) = Cardinality(m.durable.keys)
      <4>1. /\ IsFiniteSet(longer.keys \ {f})
            /\ Cardinality(longer.keys \ {f}) = Cardinality(longer.keys) - 1
        BY <3>3, <2>2, FS_RemoveElement
      <4> QED
        BY <4>1, <2>1, <2>2
    <3>6. Cardinality(longer.keys \ popped) <= Cardinality(m.durable.keys)
          /\ IsFiniteSet(longer.keys \ popped)
      BY <3>4, <3>5, FS_Subset
    <3>7. Cardinality(longer.keys \ popped) \in Nat
      BY <3>6, FS_CardinalityType
    <3> HIDE DEF popped
    <3>8. Ordered(Drop(longer, popped)) /\ Drop(longer, popped).keys = longer.keys \ popped
      BY <2>1, DropOrdered
    <3> QED
      BY <3>6, <3>7, <3>8, <2>1, <2>2, <1>2, MaxSentIsNat DEF Fits
  <2>4. CASE ~(Cardinality(longer.keys) > MaxSent)
    <3>1. Cardinality(longer.keys) <= MaxSent
      BY <2>4, <2>1, <2>2, MaxSentIsNat
    <3>2. popped = {}
      BY <2>4
    <3> HIDE DEF popped
    <3> QED
      BY <3>1, <3>2, <2>1, DropOrdered
  <2> QED
    BY <2>3, <2>4
<1> HIDE DEF longer, popped
<1>4. Fits(n.durable) /\ n.durable \in Queues
  BY <1>1, <1>2, <1>3 DEF Fits, Ordered
<1>5. /\ n.durable.keys \subseteq m.durable.keys \cup {k}
      /\ k \in n.durable.keys \/ k \in n.sent
      /\ ~n.lost => m.durable.keys \subseteq n.sent \cup n.durable.keys
  <2>1. CASE known
    BY <2>1, <1>1
  <2>2. CASE ~known
    BY <2>2, <1>1, <1>3
  <2> QED
    BY <2>1, <2>2
<1>6. n.sent \subseteq Keys /\ n.out \subseteq Alerts /\ n.lost \in BOOLEAN
  BY <1>1, <1>2 DEF Alerts
<1>7. IsManager(n)
  <2> HIDE DEF n
  <2> QED
    BY <1>1, <1>4, <1>6 DEF IsManager, Managers
<1> QED
  BY <1>1, <1>5, <1>7 DEF Follows, Known

\* What forgetting does: exactly the keys of K are no longer known.
LEMMA ForgetSound ==
    ASSUME NEW m, IsManager(m), NEW K
    PROVE  /\ Follows(Forget(m, K), m)
           /\ Forget(m, K).sent = m.sent \ K
           /\ Forget(m, K).durable.keys = m.durable.keys \ K
           /\ Forget(m, K).out = m.out /\ Forget(m, K).lost = m.lost
           /\ Known(Forget(m, K)) = Known(m) \ K
<1> DEFINE n == Forget(m, K)
<1>1. /\ n.sent = m.sent \ K /\ n.durable = Drop(m.durable, K)
      /\ n.out = m.out /\ n.lost = m.lost
      /\ n \in Managers <=> /\ n.sent \subseteq Keys /\ n.durable \in Queues
                            /\ n.out \subseteq Alerts /\ n.lost \in BOOLEAN
  BY DEF Forget, IsManager, Managers
<1>2. Fits(n.durable) /\ n.durable.keys = m.durable.keys \ K /\ n.durable \in Queues
  BY <1>1, DropOrdered DEF IsManager, Fits, Ordered
<1>3. IsManager(n)
  BY <1>1, <1>2 DEF IsManager, Managers
<1> QED
  BY <1>1, <1>2, <1>3 DEF Follows, Known

\* n knows no key that m does not know, but perhaps k.
Adds(n, m, k) ==
    /\ n.sent \subseteq m.sent \cup {k}
    /\ n.durable.keys \subseteq m.durable.keys \cup {k}

\* The threshold that is due at level v.
Due(l, v) == {k \in {Threshold(l, v)} : v > 0 /\ Enabled(k)}

LEMMA KindsDiffer ==
    ASSUME NEW l \in Lanes, NEW v \in Levels
    PROVE  /\ Depleted(l)[2] = "depleted" /\ Depleted(l) \notin Due(l, v)
           /\ Restored(l) \notin Due(l, v) /\ Restored(l) # Depleted(l)
           /\ Due(l, v) \subseteq Keys /\ \A k \in Due(l, v) : k[2] = "threshold"
           /\ \A k \in Due(l, v) : k # Depleted(l) /\ k # Restored(l) /\ k[1] = l /\ v # 0
           /\ \A u \in Levels : /\ Step(l, u)[2] = "step" /\ Step(l, u) \notin Due(l, v)
                               /\ Depleted(l) # Step(l, u) /\ Restored(l) # Step(l, u)
  BY FullIsPositive DEF Depleted, Restored, Step, Threshold, Levels, Keys, Families, Due

\* The usage-step stage: it touches only the steps of its lane, forgets them
\* when usage fell, and announces the one that usage rose to unless known.
LEMMA StepStage ==
    ASSUME NEW m, IsManager(m), NEW l \in Lanes, NEW v \in Levels,
           previous \in [Lanes -> -1..Full], NEW a, a = CheckStep(m, l, v)
    PROVE  /\ Follows(a, m) /\ Adds(a, m, Step(l, v))
           /\ a.out \subseteq m.out \cup {Step(l, v)}
           /\ ~a.lost => \A k \in Known(m) : k[2] # "step" => k \in Known(a)
           /\ m.sent \subseteq a.sent \cup {Step(l, u) : u \in 1..Full}
           /\ v < previous[l] => \A u \in 1..Full : Step(l, u) \notin Known(a)
           /\ previous[l] \in 0..(v - 1) /\ v < Full /\ Enabled(Step(l, v))
                /\ Step(l, v) \notin Known(m) => Step(l, v) \in a.out
<1> DEFINE K == {Step(l, u) : u \in 1..Full}
<1>0. \A k \in K : k[2] = "step"
  BY DEF Step
<1>1. CASE v < previous[l]
  <2>1. a = Forget(m, K)
    BY <1>1 DEF CheckStep
  <2>2. \A u \in 1..Full : Step(l, u) \in K
    OBVIOUS
  <2>3. ~(previous[l] \in 0..(v - 1))
    BY <1>1, FullIsPositive DEF Levels
  <2> HIDE DEF K
  <2>4. /\ Follows(a, m) /\ a.sent = m.sent \ K /\ a.durable.keys = m.durable.keys \ K
        /\ a.out = m.out /\ Known(a) = Known(m) \ K
    BY <2>1, ForgetSound
  <2> QED
    BY <2>2, <2>3, <2>4, <1>0 DEF Adds, K
<1>2. CASE ~(v < previous[l]) /\ previous[l] \in 0..(v - 1) /\ v < Full /\ Enabled(Step(l, v))
  <2>1. a = Mark(m, Step(l, v))
    BY <1>2 DEF CheckStep
  <2>2. Step(l, v) \in Keys
    BY <1>2, FullIsPositive DEF Keys, Families, Step, Levels
  <2>3. /\ Follows(a, m) /\ a.sent = m.sent \cup {Step(l, v)}
        /\ a.durable.keys \subseteq m.durable.keys \cup {Step(l, v)}
        /\ a.out = m.out \cup ({Step(l, v)} \ Known(m))
        /\ ~a.lost => Known(a) = Known(m) \cup {Step(l, v)}
    BY <2>1, <2>2, MarkSound
  <2> QED
    BY <2>3, <1>2 DEF Adds
<1>3. CASE ~(v < previous[l]) /\ ~(previous[l] \in 0..(v - 1) /\ v < Full /\ Enabled(Step(l, v)))
  BY <1>3 DEF CheckStep, Follows, Adds
<1> QED
  BY <1>1, <1>2, <1>3

\* The threshold stage: it forgets the thresholds of its lane when usage is
\* low, and else announces and marks the one that usage is at, if switched on.
LEMMA ThresholdStage ==
    ASSUME NEW m, IsManager(m), NEW l \in Lanes, NEW v \in Levels,
           NEW b, b = CheckThreshold(m, l, v), NEW due, due = Due(l, v)
    PROVE  /\ Follows(b, m)
           /\ b.sent \subseteq m.sent \cup due
           /\ b.durable.keys \subseteq m.durable.keys \cup due
           /\ b.out = m.out \cup (due \ Known(m)) /\ due \subseteq b.sent
           /\ ~b.lost => \A k \in Known(m) : k[2] # "threshold" => k \in Known(b)
           /\ ~b.lost => Known(b) = (Known(m) \ {k \in Keys : k[1] = l /\ k[2] = "threshold" /\ v = 0})
                                      \cup due
<1> DEFINE K == {Threshold(l, u) : u \in 1..Full}
<1>1. CASE v = 0
  <2>1. b = Forget(m, K) /\ due = {}
    BY <1>1 DEF CheckThreshold, Due
  <2>2. K = {k \in Keys : k[1] = l /\ k[2] = "threshold"}
    BY DEF Keys, Families, Threshold
  <2> HIDE DEF K
  <2>3. /\ Follows(b, m) /\ b.sent = m.sent \ K /\ b.durable.keys = m.durable.keys \ K
        /\ b.out = m.out /\ Known(b) = Known(m) \ K
    BY <2>1, ForgetSound
  <2> QED
    BY <2>1, <2>2, <2>3, <1>1
<1>2. CASE v # 0 /\ Enabled(Threshold(l, v))
  <2>1. b = Mark(m, Threshold(l, v)) /\ due = {Threshold(l, v)}
    BY <1>2, FullIsPositive DEF CheckThreshold, Levels, Due
  <2>2. Threshold(l, v) \in Keys
    BY <1>2, FullIsPositive DEF Keys, Families, Threshold, Levels
  <2>3. /\ Follows(b, m) /\ b.sent = m.sent \cup {Threshold(l, v)}
        /\ b.durable.keys \subseteq m.durable.keys \cup {Threshold(l, v)}
        /\ b.out = m.out \cup ({Threshold(l, v)} \ Known(m))
        /\ ~b.lost => Known(b) = Known(m) \cup {Threshold(l, v)}
    BY <2>1, <2>2, MarkSound
  <2> QED
    BY <2>1, <2>3, <1>2
<1>3. CASE v # 0 /\ ~Enabled(Threshold(l, v))
  <2>1. b = m /\ due = {}
    BY <1>3 DEF CheckThreshold, Due
  <2> QED
    BY <2>1, <1>3 DEF Follows
<1> QED
  BY <1>1, <1>2, <1>3

\* The session stage: it touches only the depletion of its lane; it announces
\* a rise to Full unless known, and forgets it when usage is no longer Full.
LEMMA SessionStage ==
    ASSUME NEW m, IsManager(m), NEW l \in Lanes, NEW v \in Levels,
           previous \in [Lanes -> -1..Full], NEW c, c = CheckSession(m, l, v)
    PROVE  /\ Follows(c, m)
           /\ c.out \subseteq m.out \cup {Depleted(l), Restored(l)}
           /\ Adds(c, m, Depleted(l))
           /\ v < Full => c.sent \subseteq m.sent /\ c.durable.keys \subseteq m.durable.keys
           /\ ~c.lost => \A k \in Known(m) : k # Depleted(l) => k \in Known(c)
           /\ Depleted(l) \in Known(c) => Depleted(l) \in Known(m) \/ Depleted(l) \in c.out
           /\ Restored(l) \in c.out => \/ Restored(l) \in m.out
                                       \/ /\ Depleted(l) \in Known(m)
                                          /\ Depleted(l) \notin Known(c)
           /\ previous[l] = Full /\ v < Full => Depleted(l) \notin Known(c)
           /\ previous[l] < Full /\ v = Full /\ Enabled(Depleted(l))
                /\ Depleted(l) \notin Known(m) => Depleted(l) \in c.out
<1>0. /\ Depleted(l) \in Keys /\ Restored(l) \in Alerts /\ Depleted(l) # Restored(l)
      /\ previous[l] \in -1..Full /\ v \in 0..Full /\ Full \in Nat
  BY FullIsPositive DEF Keys, Families, Depleted, Restored, Alerts, Levels
<1>1. CASE previous[l] < Full /\ v = Full /\ Enabled(Depleted(l))
  <2>1. c = Mark(m, Depleted(l))
    BY <1>1 DEF CheckSession
  <2>2. /\ Follows(c, m) /\ c.sent = m.sent \cup {Depleted(l)}
        /\ c.durable.keys \subseteq m.durable.keys \cup {Depleted(l)}
        /\ c.out = m.out \cup ({Depleted(l)} \ Known(m))
        /\ ~c.lost => Known(c) = Known(m) \cup {Depleted(l)}
    BY <2>1, <1>0, MarkSound
  <2> QED
    BY <2>2, <1>0, <1>1 DEF Adds
<1>2. CASE previous[l] = Full /\ v < Full /\ Depleted(l) \in Known(m)
  <2> DEFINE n == Forget(m, {Depleted(l)})
             r == {k \in {Restored(l)} : Enabled(k)}
  <2>1. c = [n EXCEPT !.out = @ \cup r]
    BY <1>2, <1>0 DEF CheckSession
  <2>2. /\ Follows(n, m) /\ n.sent = m.sent \ {Depleted(l)}
        /\ n.durable.keys = m.durable.keys \ {Depleted(l)}
        /\ n.out = m.out /\ n.lost = m.lost /\ Known(n) = Known(m) \ {Depleted(l)}
    BY ForgetSound
  <2> HIDE DEF n
  <2>3. n \in Managers /\ Fits(n.durable) /\ r \subseteq Alerts /\ r \subseteq {Restored(l)}
    BY <2>2, <1>0 DEF Follows, IsManager
  <2> HIDE DEF r
  <2>4. /\ c \in Managers /\ c.sent = n.sent /\ c.durable = n.durable
        /\ c.out = n.out \cup r /\ c.lost = n.lost
    BY <2>1, <2>3 DEF Managers
  <2>5. Follows(c, m) /\ Known(c) = Known(n)
    BY <2>2, <2>3, <2>4 DEF Follows, IsManager, Known
  <2> QED
    BY <2>2, <2>3, <2>4, <2>5, <1>0, <1>2 DEF Adds
<1>3. CASE /\ ~(previous[l] < Full /\ v = Full /\ Enabled(Depleted(l)))
           /\ ~(previous[l] = Full /\ v < Full /\ Depleted(l) \in Known(m))
  <2>1. c = m
    BY <1>3, <1>0 DEF CheckSession
  <2> QED
    BY <2>1, <1>3, <1>0 DEF Follows, Adds
<1> QED
  BY <1>1, <1>2, <1>3

-----------------------------------------------------------------------------
(* The invariant.                                                          *)

TypeInv ==
    /\ on \in BOOLEAN /\ events \in Choices
    /\ previous \in [Lanes -> -1..Full]
    /\ sent \subseteq Keys /\ Fits(durable)
    /\ stored # Unreadable => Fits(stored)
    /\ announced \subseteq Alerts
    /\ given \subseteq Keys /\ open \subseteq Lanes /\ loaded \subseteq Keys
    /\ forgetful \in BOOLEAN

\* The keys known while no window is handled.
Marked == sent \cup durable.keys

\* As long as no mark was lost, the thresholds marked are those that are due,
\* and a depletion that is marked is one that is open.
KnownInv ==
    /\ \A k \in given : k[2] = "threshold"
    /\ ~forgetful =>
         /\ \A k \in Keys : k[2] = "threshold" => (k \in Marked <=> k \in given)
         /\ \A l \in Lanes : Depleted(l) \in Marked => l \in open

\* The marks of a process that has loaded none lie at or below the level it
\* last observed, in each of the two memories.
SentInv ==
    \A l \in Lanes :
      /\ \A u \in 1..Full : Step(l, u) \in sent => u <= previous[l]
      /\ Depleted(l) \in sent => l \in Sessions /\ previous[l] = Full

DurableInv ==
    \A l \in Lanes :
      /\ \A u \in 1..Full : Step(l, u) \in durable.keys \ loaded => u <= previous[l]
      /\ Depleted(l) \in durable.keys \ loaded => l \in Sessions /\ previous[l] = Full

Inv == TypeInv /\ KnownInv /\ SentInv /\ DurableInv

LEMMA ManagerSound ==
    ASSUME TypeInv
    PROVE  /\ IsManager(Manager) /\ Manager.sent = sent /\ Manager.durable = durable
           /\ Manager.out = {} /\ Manager.lost = FALSE
           /\ Known(Manager) = Marked
  BY DEF Marked, TypeInv, Manager, IsManager, Managers, Known, Fits, Ordered

\* The stages together, for a step of Notify: what is known, what is decided.
LEMMA ObservedSound ==
    ASSUME TypeInv, NEW l \in Lanes, NEW v \in Levels, NEW m, m = Observed(l, v),
           NEW due, due = Due(l, v)
    PROVE  /\ IsManager(m)
           /\ m.sent \subseteq sent \cup {Step(l, v)} \cup due \cup {Depleted(l)}
           /\ m.durable.keys \subseteq durable.keys \cup {Step(l, v)} \cup due \cup {Depleted(l)}
           /\ m.out \subseteq {Step(l, v)} \cup due \cup {Depleted(l), Restored(l)}
           /\ v < previous[l] => \A u \in 1..Full : Step(l, u) \notin Known(m)
           /\ ~m.lost =>
                /\ \A k \in Keys : k[2] = "threshold" =>
                     (k \in Known(m) <=> k \in due \/ (k \in Known(Manager) /\ ~(k[1] = l /\ v = 0)))
                /\ \A k \in due : k \in m.out <=> k \notin Known(Manager)
           /\ v < Full \/ l \notin Sessions =>
                (Depleted(l) \in m.sent => Depleted(l) \in sent)
                /\ (Depleted(l) \in m.durable.keys => Depleted(l) \in durable.keys)
           /\ Depleted(l) \in Known(m) => Depleted(l) \in Known(Manager) \/ Depleted(l) \in m.out
           /\ Restored(l) \in m.out => Depleted(l) \in Known(Manager) /\ Depleted(l) \notin Known(m)
           /\ l \in Sessions /\ previous[l] = Full /\ v < Full => Depleted(l) \notin Known(m)
           /\ l \in Sessions /\ previous[l] < Full /\ v = Full /\ Enabled(Depleted(l))
                /\ Depleted(l) \notin Known(Manager) => Depleted(l) \in m.out
           /\ previous[l] \in 0..(v - 1) /\ v < Full /\ Enabled(Step(l, v))
                /\ Step(l, v) \notin Known(Manager) => Step(l, v) \in m.out
<1> DEFINE a == CheckStep(Manager, l, v)
           b == CheckThreshold(a, l, v)
<1>0. previous \in [Lanes -> -1..Full]
  BY DEF TypeInv
<1>1. /\ IsManager(Manager) /\ Manager.sent = sent /\ Manager.durable = durable
      /\ Manager.out = {} /\ Manager.lost = FALSE
  BY ManagerSound
<1>2. /\ Follows(a, Manager) /\ Adds(a, Manager, Step(l, v))
      /\ a.out \subseteq Manager.out \cup {Step(l, v)}
      /\ ~a.lost => \A k \in Known(Manager) : k[2] # "step" => k \in Known(a)
      /\ Manager.sent \subseteq a.sent \cup {Step(l, u) : u \in 1..Full}
      /\ v < previous[l] => \A u \in 1..Full : Step(l, u) \notin Known(a)
      /\ previous[l] \in 0..(v - 1) /\ v < Full /\ Enabled(Step(l, v))
           /\ Step(l, v) \notin Known(Manager) => Step(l, v) \in a.out
  BY <1>0, <1>1, StepStage
<1> HIDE DEF a
<1>3. /\ Follows(b, a)
      /\ b.sent \subseteq a.sent \cup due
      /\ b.durable.keys \subseteq a.durable.keys \cup due
      /\ b.out = a.out \cup (due \ Known(a)) /\ due \subseteq b.sent
      /\ ~b.lost => \A k \in Known(a) : k[2] # "threshold" => k \in Known(b)
      /\ ~b.lost => Known(b) = (Known(a) \ {k \in Keys : k[1] = l /\ k[2] = "threshold" /\ v = 0})
                                 \cup due
  <2>1. IsManager(a) /\ b = CheckThreshold(a, l, v)
    BY <1>2 DEF Follows
  <2> HIDE DEF b
  <2> QED
    BY <2>1, ThresholdStage
<1> HIDE DEF b
<1>6. /\ Depleted(l) \notin due /\ Restored(l) \notin due /\ Restored(l) # Depleted(l)
      /\ due \subseteq Keys /\ \A k \in due : k[2] = "threshold"
      /\ \A k \in due : k # Depleted(l) /\ k # Restored(l) /\ k[1] = l /\ v # 0
  BY KindsDiffer
<1>7. \A u \in 1..Full : Step(l, u)[2] = "step" /\ Step(l, u) \notin due
                        /\ Depleted(l) # Step(l, u) /\ Restored(l) # Step(l, u)
  BY KindsDiffer, FullIsPositive DEF Levels
<1>8. /\ Depleted(l)[2] = "depleted" /\ Step(l, v)[2] = "step" /\ Step(l, v) \notin due
      /\ Depleted(l) # Step(l, v) /\ Restored(l) # Step(l, v)
  BY KindsDiffer
<1>9. /\ Known(a) = a.sent \cup a.durable.keys /\ Known(b) = b.sent \cup b.durable.keys
      /\ Known(m) = m.sent \cup m.durable.keys /\ Known(Manager) = sent \cup durable.keys
  BY <1>1 DEF Known
\* The first two stages together.
<1>10. /\ IsManager(b)
       /\ b.sent \subseteq sent \cup {Step(l, v)} \cup due
       /\ b.durable.keys \subseteq durable.keys \cup {Step(l, v)} \cup due
       /\ b.out \subseteq {Step(l, v)} \cup due
  BY <1>1, <1>2, <1>3 DEF Follows, Adds
<1>11. v < previous[l] => \A u \in 1..Full : Step(l, u) \notin Known(b)
  BY <1>2, <1>3, <1>6, <1>7, <1>9
<1>12. previous[l] \in 0..(v - 1) /\ v < Full /\ Enabled(Step(l, v))
         /\ Step(l, v) \notin Known(Manager) => Step(l, v) \in b.out
  BY <1>2, <1>3
<1>13. ~b.lost =>
         /\ \A k \in Keys : k[2] = "threshold" =>
              (k \in Known(b) <=> k \in due \/ (k \in Known(Manager) /\ ~(k[1] = l /\ v = 0)))
         /\ \A k \in due : k \in b.out <=> k \notin Known(Manager)
  <2> SUFFICES ASSUME ~b.lost
               PROVE  /\ \A k \in Keys : k[2] = "threshold" =>
                           (k \in Known(b) <=> k \in due \/ (k \in Known(Manager) /\ ~(k[1] = l /\ v = 0)))
                      /\ \A k \in due : k \in b.out <=> k \notin Known(Manager)
    OBVIOUS
  <2>1. ~a.lost
    BY <1>3 DEF Follows
  <2>2. \A k : k[2] = "threshold" => (k \in Known(a) <=> k \in Known(Manager))
    BY <2>1, <1>1, <1>2, <1>8, <1>9 DEF Adds
  <2>3. \A k \in due : k \notin a.out
    BY <1>1, <1>2, <1>6, <1>8
  <2> QED
    BY <2>2, <2>3, <1>3, <1>6
<1>14. Depleted(l) \in Known(b) => Depleted(l) \in Known(Manager)
  BY <1>6, <1>8, <1>9, <1>10
<1>15. Restored(l) \notin b.out /\ Depleted(l) \notin b.out
  BY <1>6, <1>8, <1>10
<1>4. CASE l \in Sessions
  <2>1. m = CheckSession(b, l, v)
    BY <1>4 DEF Observed, a, b
  <2>2. /\ Follows(m, b)
        /\ m.out \subseteq b.out \cup {Depleted(l), Restored(l)}
        /\ Adds(m, b, Depleted(l))
        /\ v < Full => m.sent \subseteq b.sent /\ m.durable.keys \subseteq b.durable.keys
        /\ ~m.lost => \A k \in Known(b) : k # Depleted(l) => k \in Known(m)
        /\ Depleted(l) \in Known(m) => Depleted(l) \in Known(b) \/ Depleted(l) \in m.out
        /\ Restored(l) \in m.out => \/ Restored(l) \in b.out
                                    \/ /\ Depleted(l) \in Known(b)
                                       /\ Depleted(l) \notin Known(m)
        /\ previous[l] = Full /\ v < Full => Depleted(l) \notin Known(m)
        /\ previous[l] < Full /\ v = Full /\ Enabled(Depleted(l))
             /\ Depleted(l) \notin Known(b) => Depleted(l) \in m.out
    BY <1>0, <1>10, <2>1, SessionStage
  <2>3. /\ IsManager(m)
        /\ m.sent \subseteq sent \cup {Step(l, v)} \cup due \cup {Depleted(l)}
        /\ m.durable.keys \subseteq durable.keys \cup {Step(l, v)} \cup due \cup {Depleted(l)}
        /\ m.out \subseteq {Step(l, v)} \cup due \cup {Depleted(l), Restored(l)}
    BY <2>2, <1>10 DEF Follows, Adds
  <2>4. v < previous[l] => \A u \in 1..Full : Step(l, u) \notin Known(m)
    BY <2>2, <1>7, <1>8, <1>9, <1>11 DEF Adds
  <2>5. ~m.lost =>
          /\ \A k \in Keys : k[2] = "threshold" =>
               (k \in Known(m) <=> k \in due \/ (k \in Known(Manager) /\ ~(k[1] = l /\ v = 0)))
          /\ \A k \in due : k \in m.out <=> k \notin Known(Manager)
    <3> SUFFICES ASSUME ~m.lost
                 PROVE  /\ \A k \in Keys : k[2] = "threshold" =>
                             (k \in Known(m) <=> k \in due \/ (k \in Known(Manager) /\ ~(k[1] = l /\ v = 0)))
                        /\ \A k \in due : k \in m.out <=> k \notin Known(Manager)
      OBVIOUS
    <3>1. ~b.lost /\ b.out \subseteq m.out
      BY <2>2 DEF Follows
    <3>2. \A k : k[2] = "threshold" => (k \in Known(m) <=> k \in Known(b))
      BY <2>2, <1>8, <1>9 DEF Adds
    <3>3. \A k \in due : k \in m.out <=> k \in b.out
      BY <2>2, <3>1, <1>6
    <3> QED
      BY <3>1, <3>2, <3>3, <1>13
  <2>6. v < Full =>
          (Depleted(l) \in m.sent => Depleted(l) \in sent)
          /\ (Depleted(l) \in m.durable.keys => Depleted(l) \in durable.keys)
    BY <2>2, <1>6, <1>8, <1>10
  <2>7. Depleted(l) \in Known(m) => Depleted(l) \in Known(Manager) \/ Depleted(l) \in m.out
    BY <2>2, <1>14
  <2>8. Restored(l) \in m.out => Depleted(l) \in Known(Manager) /\ Depleted(l) \notin Known(m)
    BY <2>2, <1>14, <1>15
  <2>9. /\ previous[l] = Full /\ v < Full => Depleted(l) \notin Known(m)
        /\ previous[l] < Full /\ v = Full /\ Enabled(Depleted(l))
             /\ Depleted(l) \notin Known(Manager) => Depleted(l) \in m.out
    BY <2>2, <1>14
  <2>10. previous[l] \in 0..(v - 1) /\ v < Full /\ Enabled(Step(l, v))
           /\ Step(l, v) \notin Known(Manager) => Step(l, v) \in m.out
    BY <2>2, <1>12 DEF Follows
  <2> QED
    BY <1>4, <2>3, <2>4, <2>5, <2>6, <2>7, <2>8, <2>9, <2>10
<1>5. CASE l \notin Sessions
  <2>1. m = b
    BY <1>5 DEF Observed, a, b
  <2>2. /\ Depleted(l) \in b.sent => Depleted(l) \in sent
        /\ Depleted(l) \in b.durable.keys => Depleted(l) \in durable.keys
    BY <1>6, <1>8, <1>10
  <2>3. /\ b.sent \subseteq sent \cup {Step(l, v)} \cup due \cup {Depleted(l)}
        /\ b.durable.keys \subseteq durable.keys \cup {Step(l, v)} \cup due \cup {Depleted(l)}
        /\ b.out \subseteq {Step(l, v)} \cup due \cup {Depleted(l), Restored(l)}
    BY <1>10
  <2> QED
    BY <2>1, <2>2, <2>3, <1>5, <1>10, <1>11, <1>12, <1>13, <1>14, <1>15
<1> QED
  BY <1>4, <1>5

\* The steps that observe nothing leave the marks, the levels and the history.
LEMMA IdleStep ==
    ASSUME Inv, NotifyOff \/ ChangeSettings \/ UNCHANGED vars PROVE Inv'
<1>1. /\ UNCHANGED <<previous, sent, durable, given, open, loaded, forgetful>>
      /\ stored' \in {durable, stored, Unreadable}
      /\ on' \in BOOLEAN /\ events' \in Choices /\ announced' \subseteq Alerts
  BY DEF NotifyOff, ChangeSettings, Persist, vars, memory, history, Inv, TypeInv
<1>2. TypeInv'
  BY <1>1 DEF Inv, TypeInv
<1> QED
  BY <1>1, <1>2 DEF Inv, KnownInv, SentInv, DurableInv, Marked

\* A restart knows the marks of the file, all of them loaded.
LEMMA RestartStep == ASSUME Inv, Restart PROVE Inv'
<1>1. /\ Fits(Empty)
  BY FS_EmptySet, MaxSentIsNat DEF Fits, Ordered, Empty, Queues
<1>2. /\ Fits(durable') /\ sent' = {} /\ loaded' = durable'.keys
      /\ loaded' \subseteq Keys /\ stored' = stored
      /\ previous' = [l \in Lanes |-> -1] /\ announced' = {}
      /\ UNCHANGED <<on, events, given, open>>
  BY <1>1 DEF Restart, Inv, TypeInv, Fits, Ordered, Queues
<1>3. forgetful' \in BOOLEAN /\ (~forgetful' => ~forgetful /\ durable'.keys = Marked)
  BY ManagerSound DEF Restart, Inv, TypeInv
<1>4. TypeInv'
  BY <1>2, <1>3, FullIsPositive DEF Inv, TypeInv
<1>5. KnownInv'
  BY <1>2, <1>3 DEF Inv, KnownInv, Marked
<1>6. SentInv' /\ DurableInv'
  BY <1>2 DEF SentInv, DurableInv
<1> QED
  BY <1>4, <1>5, <1>6 DEF Inv

\* An observation.
LEMMA NotifyStep == ASSUME Inv, Notify PROVE Inv'
<1>1. PICK l \in Lanes, v \in Levels :
        LET m == Observed(l, v) IN
        /\ on
        /\ sent' = m.sent /\ durable' = m.durable /\ announced' = m.out
        /\ previous' = [previous EXCEPT ![l] = v]
        /\ Persist
        /\ given' = {k \in given : ~(k[1] = l /\ v = 0)} \cup Due(l, v)
        /\ open' = (open \cup {o \in {l} : Depleted(o) \in m.out})
                     \ {o \in {l} : Restored(o) \in m.out}
        /\ loaded' = loaded \cap m.durable.keys
        /\ forgetful' = (forgetful \/ m.lost)
        /\ UNCHANGED <<on, events>>
  BY DEF Notify, Due
<1> DEFINE m == Observed(l, v)
           due == Due(l, v)
<1>2. /\ IsManager(m)
      /\ m.sent \subseteq sent \cup {Step(l, v)} \cup due \cup {Depleted(l)}
      /\ m.durable.keys \subseteq durable.keys \cup {Step(l, v)} \cup due \cup {Depleted(l)}
      /\ v < previous[l] => \A u \in 1..Full : Step(l, u) \notin Known(m)
      /\ ~m.lost => \A k \in Keys : k[2] = "threshold" =>
           (k \in Known(m) <=> k \in due \/ (k \in Marked /\ ~(k[1] = l /\ v = 0)))
      /\ v < Full \/ l \notin Sessions =>
           (Depleted(l) \in m.sent => Depleted(l) \in sent)
           /\ (Depleted(l) \in m.durable.keys => Depleted(l) \in durable.keys)
      /\ Depleted(l) \in Known(m) => Depleted(l) \in Marked \/ Depleted(l) \in m.out
      /\ Restored(l) \in m.out => Depleted(l) \notin Known(m)
      /\ l \in Sessions /\ previous[l] = Full /\ v < Full => Depleted(l) \notin Known(m)
  BY ObservedSound, ManagerSound DEF Inv
<1> HIDE DEF m, due
<1>3. /\ m \in Managers /\ Fits(m.durable) /\ Known(m) = m.sent \cup m.durable.keys
      /\ v \in 0..Full /\ Full \in Nat /\ previous[l] \in -1..Full
  BY <1>2, FullIsPositive DEF IsManager, Known, Levels, Inv, TypeInv
<1>4. /\ sent' = m.sent /\ durable' = m.durable /\ announced' = m.out
      /\ previous' = [previous EXCEPT ![l] = v]
      /\ given' = {k \in given : ~(k[1] = l /\ v = 0)} \cup due
      /\ open' = (open \cup {o \in {l} : Depleted(o) \in m.out})
                   \ {o \in {l} : Restored(o) \in m.out}
      /\ loaded' = loaded \cap m.durable.keys
      /\ forgetful' = (forgetful \/ m.lost)
      /\ on' = on /\ events' = events
      /\ stored' \in {m.durable, stored, Unreadable}
      /\ Marked' = Known(m)
  BY <1>1, <1>3 DEF m, due, Persist, Marked
<1>5. due \subseteq Keys /\ (\A k \in due : k[2] = "threshold") /\ Depleted(l) \notin due
  BY KindsDiffer DEF due
<1>6. TypeInv'
  BY <1>3, <1>4, <1>5 DEF Inv, TypeInv, Managers
\* A key of another lane, or of another kind, is not added.
<1>7. \A o \in Lanes, u \in 1..Full :
        /\ Step(o, u) \notin due /\ Step(o, u) # Depleted(l)
        /\ Step(o, u) = Step(l, v) => o = l /\ u = v
  BY <1>5 DEF Step, Depleted
<1>8. \A o \in Lanes : /\ Depleted(o) \notin due /\ Depleted(o) # Step(l, v)
                       /\ Depleted(o) = Depleted(l) => o = l
  BY <1>5 DEF Step, Depleted
<1>9. KnownInv'
  <2>1. \A k \in given' : k[2] = "threshold"
    BY <1>4, <1>5 DEF Inv, KnownInv
  <2>2. SUFFICES ASSUME ~forgetful'
                 PROVE  /\ \A k \in Keys : k[2] = "threshold" => (k \in Marked' <=> k \in given')
                        /\ \A o \in Lanes : Depleted(o) \in Marked' => o \in open'
    BY <2>1 DEF KnownInv
  <2>3. ~forgetful /\ ~m.lost
    BY <2>2, <1>4 DEF Inv, TypeInv
  <2>4. \A k \in Keys : k[2] = "threshold" => (k \in Marked' <=> k \in given')
    BY <1>2, <1>4, <2>3 DEF Inv, KnownInv
  <2>5. ASSUME NEW o \in Lanes, Depleted(o) \in Marked' PROVE o \in open'
    <3>1. CASE o = l
      BY <3>1, <2>5, <1>2, <1>4, <2>3 DEF Inv, KnownInv
    <3>2. CASE o # l
      <4>1. Depleted(o) \in Marked
        BY <3>2, <2>5, <1>2, <1>3, <1>4, <1>8 DEF Marked
      <4> QED
        BY <4>1, <3>2, <1>4, <2>3 DEF Inv, KnownInv
    <3> QED
      BY <3>1, <3>2
  <2> QED
    BY <2>4, <2>5
<1>10. \A o \in Lanes : previous'[o] = IF o = l THEN v ELSE previous[o]
  BY <1>4 DEF Inv, TypeInv
<1>11. SentInv'
  <2>1. ASSUME NEW o \in Lanes, NEW u \in 1..Full, Step(o, u) \in sent' PROVE u <= previous'[o]
    <3>1. CASE Step(o, u) \in sent
      <4>1. u <= previous[o]
        BY <3>1 DEF Inv, SentInv
      <4>2. CASE o # l
        BY <4>1, <4>2, <1>10
      <4>3. CASE o = l
        BY <4>1, <4>3, <1>2, <1>3, <1>4, <1>10, <2>1
      <4> QED
        BY <4>2, <4>3
    <3>2. CASE Step(o, u) \notin sent
      BY <3>2, <2>1, <1>2, <1>3, <1>4, <1>7, <1>10
    <3> QED
      BY <3>1, <3>2
  <2>2. ASSUME NEW o \in Lanes, Depleted(o) \in sent' PROVE o \in Sessions /\ previous'[o] = Full
    <3>1. CASE o # l
      BY <3>1, <2>2, <1>2, <1>4, <1>8, <1>10 DEF Inv, SentInv
    <3>2. CASE o = l
      BY <3>2, <2>2, <1>2, <1>3, <1>4, <1>10 DEF Inv, SentInv
    <3> QED
      BY <3>1, <3>2
  <2> QED
    BY <2>1, <2>2 DEF SentInv
<1>12. DurableInv'
  <2>1. ASSUME NEW o \in Lanes, NEW u \in 1..Full, Step(o, u) \in durable'.keys \ loaded'
        PROVE  u <= previous'[o]
    <3>0. Step(o, u) \notin loaded /\ Step(o, u) \in m.durable.keys
      BY <2>1, <1>4
    <3>1. CASE Step(o, u) \in durable.keys
      <4>1. u <= previous[o]
        BY <3>0, <3>1 DEF Inv, DurableInv
      <4>2. CASE o # l
        BY <4>1, <4>2, <1>10
      <4>3. CASE o = l
        BY <4>1, <4>3, <1>2, <1>3, <1>10, <3>0
      <4> QED
        BY <4>2, <4>3
    <3>2. CASE Step(o, u) \notin durable.keys
      BY <3>0, <3>2, <1>2, <1>3, <1>7, <1>10
    <3> QED
      BY <3>1, <3>2
  <2>2. ASSUME NEW o \in Lanes, Depleted(o) \in durable'.keys \ loaded'
        PROVE  o \in Sessions /\ previous'[o] = Full
    <3>0. Depleted(o) \notin loaded /\ Depleted(o) \in m.durable.keys
      BY <2>2, <1>4
    <3>1. CASE o # l
      BY <3>0, <3>1, <1>2, <1>8, <1>10 DEF Inv, DurableInv
    <3>2. CASE o = l
      BY <3>0, <3>2, <1>2, <1>3, <1>10 DEF Inv, DurableInv
    <3> QED
      BY <3>1, <3>2
  <2> QED
    BY <2>1, <2>2 DEF DurableInv
<1> QED
  BY <1>6, <1>9, <1>11, <1>12 DEF Inv

LEMMA InvInit == Init => Inv
<1> SUFFICES ASSUME Init PROVE Inv
  OBVIOUS
<1>1. Fits(Empty) /\ Empty.keys = {} /\ Empty # Unreadable
  BY FS_EmptySet, MaxSentIsNat, UnreadableIsNoFile DEF Fits, Ordered, Empty, Queues
<1>2. TypeInv
  <2>1. previous \in [Lanes -> -1..Full]
    BY FullIsPositive DEF Init
  <2>2. Fits(durable) /\ (stored # Unreadable => Fits(stored))
    BY <1>1 DEF Init
  <2>3. /\ on \in BOOLEAN /\ events \in Choices /\ sent \subseteq Keys
        /\ announced \subseteq Alerts /\ forgetful \in BOOLEAN
        /\ given \subseteq Keys /\ open \subseteq Lanes /\ loaded \subseteq Keys
    BY DEF Init
  <2> QED
    BY <2>1, <2>2, <2>3 DEF TypeInv
<1>3. KnownInv /\ SentInv /\ DurableInv
  BY <1>1 DEF Init, KnownInv, SentInv, DurableInv, Marked
<1> QED
  BY <1>2, <1>3 DEF Inv

LEMMA InvStep == Inv /\ [Next]_vars => Inv'
  BY IdleStep, RestartStep, NotifyStep DEF Next

-----------------------------------------------------------------------------
(* Theorems.                                                               *)

\* TypeOK; in particular no sequence of marks makes the memory, and so the
\* file, outgrow its capacity.
THEOREM TypeCorrect == Spec => []TypeOK
<1>1. Inv => TypeOK
  BY DEF Inv, TypeInv, TypeOK, Fits, Ordered, Alerts
<1> QED
  BY <1>1, InvInit, InvStep, PTL DEF Spec

\* AlertsOncePerEpisode: while no mark is lost, the thresholds announced are
\* exactly those that become due.
THEOREM AlertsOnce == Spec => AlertsOncePerEpisode
<1>1. Inv /\ [Next]_vars =>
        [~forgetful' => {k \in announced' : k[2] = "threshold"} = given' \ given]_vars
  <2> SUFFICES ASSUME Inv, Next, ~forgetful'
               PROVE  {k \in announced' : k[2] = "threshold"} = given' \ given
    OBVIOUS
  <2>1. CASE NotifyOff \/ ChangeSettings \/ Restart
    BY <2>1 DEF NotifyOff, ChangeSettings, Restart, history
  <2>2. CASE Notify
    <3>1. PICK l \in Lanes, v \in Levels :
            /\ announced' = Observed(l, v).out
            /\ given' = {k \in given : ~(k[1] = l /\ v = 0)} \cup Due(l, v)
            /\ forgetful' = (forgetful \/ Observed(l, v).lost)
      BY <2>2 DEF Notify, Due
    <3>2. ~forgetful /\ ~Observed(l, v).lost
      BY <3>1 DEF Inv, TypeInv
    <3>3. /\ Observed(l, v).out \subseteq {Step(l, v)} \cup Due(l, v) \cup {Depleted(l), Restored(l)}
          /\ \A k \in Due(l, v) : k \in Observed(l, v).out <=> k \notin Marked
      BY <3>2, ObservedSound, ManagerSound DEF Inv
    <3>4. /\ \A k \in Due(l, v) : k \in Keys /\ k[2] = "threshold"
          /\ Step(l, v)[2] = "step" /\ Depleted(l)[2] = "depleted"
      BY KindsDiffer
    <3>5. Restored(l)[2] = "restored"
      BY DEF Restored
    <3>6. \A k \in Due(l, v) : k \in Marked <=> k \in given
      BY <3>2, <3>4 DEF Inv, KnownInv
    <3> QED
      BY <3>1, <3>3, <3>4, <3>5, <3>6
  <2> QED
    BY <2>1, <2>2 DEF Next
<1> QED
  BY <1>1, InvInit, InvStep, PTL DEF Spec, AlertsOncePerEpisode

\* RestoredFollowsDepleted: a session is announced as restored only if it was
\* announced as depleted and not yet as restored.
THEOREM RestoredInOrder == Spec => RestoredFollowsDepleted
<1>1. Inv /\ [Next]_vars =>
        [~forgetful => \A l \in Lanes : Restored(l) \in announced' => l \in open]_vars
  <2> SUFFICES ASSUME Inv, Next, ~forgetful, NEW o \in Lanes, Restored(o) \in announced'
               PROVE  o \in open
    OBVIOUS
  <2>1. Notify
    BY DEF Next, NotifyOff, ChangeSettings, Restart
  <2>2. PICK l \in Lanes, v \in Levels : announced' = Observed(l, v).out
    BY <2>1 DEF Notify
  <2>3. /\ Observed(l, v).out \subseteq {Step(l, v)} \cup Due(l, v) \cup {Depleted(l), Restored(l)}
        /\ Restored(l) \in Observed(l, v).out => Depleted(l) \in Marked
    BY ObservedSound, ManagerSound DEF Inv
  <2>4. \A k \in Due(l, v) : k[2] = "threshold"
    BY KindsDiffer
  <2>5. o = l
    BY <2>2, <2>3, <2>4 DEF Restored, Step, Depleted
  <2> QED
    BY <2>2, <2>3, <2>5 DEF Inv, KnownInv
<1> QED
  BY <1>1, InvInit, InvStep, PTL DEF Spec, RestoredFollowsDepleted

\* CrossingsAnnounced: a rise that is observed is announced unless an earlier
\* process left its mark.
THEOREM CrossingsAreAnnounced == Spec => CrossingsAnnounced
<1>1. Inv /\ [Next]_vars =>
        [\A l \in Lanes : \A k \in {Step(l, previous'[l]), Depleted(l)} :
           /\ on /\ Enabled(k) /\ k \notin loaded
           /\ previous[l] >= 0 /\ previous[l] < previous'[l] /\ k[3] = previous'[l]
           /\ IF k = Depleted(l) THEN l \in Sessions ELSE k[3] < Full
           => k \in announced']_vars
  <2> SUFFICES ASSUME Inv, Next, NEW o \in Lanes, NEW k \in {Step(o, previous'[o]), Depleted(o)},
                      Enabled(k), k \notin loaded,
                      previous[o] >= 0, previous[o] < previous'[o], k[3] = previous'[o],
                      IF k = Depleted(o) THEN o \in Sessions ELSE k[3] < Full
               PROVE  k \in announced'
    OBVIOUS
  <2>0. previous \in [Lanes -> -1..Full] /\ Full \in Nat \ {0}
    BY FullIsPositive DEF Inv, TypeInv
  <2>1. Notify
    BY <2>0 DEF Next, NotifyOff, ChangeSettings, Restart, memory
  <2>2. PICK l \in Lanes, v \in Levels :
          announced' = Observed(l, v).out /\ previous' = [previous EXCEPT ![l] = v]
    BY <2>1 DEF Notify
  <2>3. o = l /\ previous'[l] = v /\ previous[l] \in 0..(v - 1) /\ v \in 1..Full
    BY <2>0, <2>2 DEF Levels
  <2>4. /\ l \in Sessions /\ previous[l] < Full /\ v = Full /\ Enabled(Depleted(l))
             /\ Depleted(l) \notin Marked => Depleted(l) \in announced'
        /\ v < Full /\ Enabled(Step(l, v)) /\ Step(l, v) \notin Marked => Step(l, v) \in announced'
    BY <2>2, <2>3, ObservedSound, ManagerSound DEF Inv
  <2>5. CASE k = Depleted(l)
    <3>1. v = Full
      BY <2>3, <2>5 DEF Depleted
    <3>2. Depleted(l) \notin Marked
      BY <2>3, <2>5, <3>1, <2>0 DEF Inv, SentInv, DurableInv, Marked
    <3> QED
      BY <2>3, <2>4, <2>5, <3>1, <3>2, <2>0
  <2>6. CASE k = Step(l, v) /\ k # Depleted(l)
    <3>1. v < Full
      BY <2>3, <2>6 DEF Step
    <3>2. Step(l, v) \notin Marked
      BY <2>3, <2>6, <2>0 DEF Inv, SentInv, DurableInv, Marked
    <3> QED
      BY <2>4, <2>6, <3>1, <3>2
  <2> QED
    BY <2>3, <2>5, <2>6
<1> QED
  BY <1>1, InvInit, InvStep, PTL DEF Spec, CrossingsAnnounced

-----------------------------------------------------------------------------
(* What the run quota_depletion_restart shows takes a restart, and nothing  *)
(* else.                                                                    *)

\* The application is not started again.
OneProcess == [][~Restart]_vars

\* As long as the application runs, every depletion that is seen to happen is
\* announced, whatever the settings were before and however many marks have
\* been dropped for room.
THEOREM SilenceNeedsRestart == Spec /\ OneProcess => DepletionsAnnounced
<1> DEFINE Said == \A l \in Sessions :
                     /\ on /\ Enabled(Depleted(l))
                     /\ previous[l] \in 0..(Full - 1) /\ previous'[l] = Full
                     => Depleted(l) \in announced'
           Crossed == \A l \in Lanes : \A k \in {Step(l, previous'[l]), Depleted(l)} :
                        /\ on /\ Enabled(k) /\ k \notin loaded
                        /\ previous[l] >= 0 /\ previous[l] < previous'[l] /\ k[3] = previous'[l]
                        /\ IF k = Depleted(l) THEN l \in Sessions ELSE k[3] < Full
                        => k \in announced'
<1>1. Init => loaded = {}
  BY DEF Init
<1>2. loaded = {} /\ [Next]_vars /\ [~Restart]_vars => (loaded = {})'
  BY DEF Next, Notify, NotifyOff, ChangeSettings, vars, history
<1>3. loaded = {} /\ [Crossed]_vars => [Said]_vars
  <2> SUFFICES ASSUME loaded = {}, Crossed, NEW l \in Sessions,
                      on, Enabled(Depleted(l)),
                      previous[l] \in 0..(Full - 1), previous'[l] = Full
               PROVE  Depleted(l) \in announced'
    OBVIOUS
  <2>1. l \in Lanes /\ Depleted(l)[3] = Full
    BY SessionsAreLanes DEF Depleted
  <2>2. previous[l] >= 0 /\ previous[l] < Full
    BY FullIsPositive
  <2> QED
    BY <2>1, <2>2
<1> QED
  BY <1>1, <1>2, <1>3, CrossingsAreAnnounced, PTL
     DEF Spec, OneProcess, CrossingsAnnounced, DepletionsAnnounced

-----------------------------------------------------------------------------
(* When marks are lost, which is what two of the properties except: never   *)
(* in the first process, and later only where the file falls behind or the  *)
(* memory has less room than there are keys.                                *)

\* Each mark of the durable memory is in the other one too, or the converse.
Doubled(m)  == ~m.lost /\ m.durable.keys \subseteq m.sent
Recorded(m) == ~m.lost /\ m.sent \subseteq m.durable.keys

\* The memory has room for every key there is.
Roomy == IsFiniteSet(Keys) /\ Cardinality(Keys) <= MaxSent

\* What a full memory drops is still in the other one.
LEMMA MarkDoubled ==
    ASSUME NEW m, IsManager(m), NEW k \in Keys, Doubled(m) PROVE Doubled(Mark(m, k))
<1> DEFINE longer == Push(m.durable, k)
           popped == IF Cardinality(longer.keys) > MaxSent THEN Front(longer) ELSE {}
<1>1. Mark(m, k).lost = (m.lost \/ (k \notin m.durable.keys /\ ~(popped \subseteq m.sent \cup {k})))
  BY DEF Mark
<1>2. longer.keys = m.durable.keys \cup {k}
  BY DEF Push
<1>3. popped \subseteq longer.keys
  BY DEF Front
<1> HIDE DEF longer, popped
<1>4. Mark(m, k).sent = m.sent \cup {k} /\ Mark(m, k).durable.keys \subseteq m.durable.keys \cup {k}
  BY MarkSound
<1> QED
  BY <1>1, <1>2, <1>3, <1>4 DEF Doubled

\* With room for all keys nothing is dropped.
LEMMA MarkRecorded ==
    ASSUME Roomy, NEW m, IsManager(m), NEW k \in Keys, Recorded(m)
    PROVE  Recorded(Mark(m, k))
<1> DEFINE longer == Push(m.durable, k)
           popped == IF Cardinality(longer.keys) > MaxSent THEN Front(longer) ELSE {}
<1>1. /\ longer.keys = m.durable.keys \cup {k}
      /\ m.durable.keys \subseteq Keys
  BY DEF Push, IsManager, Fits, Ordered, Queues
<1>2. Cardinality(longer.keys) <= Cardinality(Keys) /\ Cardinality(longer.keys) \in Nat
      /\ Cardinality(Keys) \in Nat
  <2> HIDE DEF longer
  <2>1. longer.keys \subseteq Keys /\ IsFiniteSet(Keys)
    BY <1>1 DEF Roomy
  <2> QED
    BY <2>1, FS_Subset, FS_CardinalityType
<1>3. popped = {}
  BY <1>2, MaxSentIsNat DEF Roomy
<1>4. Mark(m, k).lost = (m.lost \/ (k \notin m.durable.keys /\ ~(popped \subseteq m.sent \cup {k})))
  BY DEF Mark
<1>5. Mark(m, k).durable = IF k \in m.durable.keys THEN m.durable ELSE Drop(longer, popped)
  BY DEF Mark
<1> HIDE DEF longer, popped
<1>6. Drop(longer, popped).keys = longer.keys
  BY <1>3 DEF Drop
<1>7. Mark(m, k).sent = m.sent \cup {k}
  BY MarkSound
<1> QED
  BY <1>1, <1>3, <1>4, <1>5, <1>6, <1>7 DEF Recorded

LEMMA ForgetBoth ==
    ASSUME NEW m, IsManager(m), NEW K
    PROVE  /\ Doubled(m) => Doubled(Forget(m, K))
           /\ Recorded(m) => Recorded(Forget(m, K))
  BY ForgetSound DEF Doubled, Recorded

\* The handling of a window is marking and forgetting.
LEMMA ObservedBoth ==
    ASSUME TypeInv, NEW l \in Lanes, NEW v \in Levels
    PROVE  /\ Doubled(Manager) => Doubled(Observed(l, v))
           /\ Roomy /\ Recorded(Manager) => Recorded(Observed(l, v))
<1> DEFINE a == CheckStep(Manager, l, v)
           b == CheckThreshold(a, l, v)
           c == CheckSession(b, l, v)
           Both(n, m) == /\ Doubled(m) => Doubled(n)
                         /\ Roomy /\ Recorded(m) => Recorded(n)
<1>0. previous \in [Lanes -> -1..Full] /\ IsManager(Manager)
  BY ManagerSound DEF TypeInv
<1>1. v \in 0..Full /\ Full \in Nat \ {0}
  BY FullIsPositive DEF Levels
<1>2. ASSUME NEW m, IsManager(m), NEW k \in Keys PROVE Both(Mark(m, k), m)
  BY <1>2, MarkDoubled, MarkRecorded
<1>3. ASSUME NEW m, IsManager(m), NEW K PROVE Both(Forget(m, K), m)
  BY <1>3, ForgetBoth
<1>4. IsManager(a) /\ Both(a, Manager)
  <2>1. IsManager(a)
    BY <1>0, StepStage DEF Follows
  <2>2. CASE previous[l] \in 0..(v - 1) /\ v < Full /\ Enabled(Step(l, v)) /\ ~(v < previous[l])
    <3>1. a = Mark(Manager, Step(l, v)) /\ Step(l, v) \in Keys
      BY <2>2, <1>1 DEF CheckStep, Keys, Families, Step
    <3> QED
      BY <3>1, <2>1, <1>0, <1>2
  <2>3. CASE v < previous[l]
    <3>1. a = Forget(Manager, {Step(l, u) : u \in 1..Full})
      BY <2>3 DEF CheckStep
    <3> QED
      BY <3>1, <2>1, <1>0, <1>3
  <2>4. CASE a = Manager
    BY <2>1, <2>4
  <2> QED
    BY <2>2, <2>3, <2>4 DEF CheckStep
<1> HIDE DEF a
<1>5. IsManager(b) /\ Both(b, a)
  <2>1. IsManager(b)
    BY <1>4, ThresholdStage DEF Follows
  <2>2. CASE v = 0
    <3>1. b = Forget(a, {Threshold(l, u) : u \in 1..Full})
      BY <2>2 DEF CheckThreshold
    <3> QED
      BY <3>1, <2>1, <1>4, <1>3
  <2>3. CASE v # 0 /\ Enabled(Threshold(l, v))
    <3>1. b = Mark(a, Threshold(l, v)) /\ Threshold(l, v) \in Keys
      BY <2>3, <1>1 DEF CheckThreshold, Keys, Families, Threshold
    <3> QED
      BY <3>1, <2>1, <1>4, <1>2
  <2>4. CASE b = a
    BY <2>1, <2>4
  <2> QED
    BY <2>2, <2>3, <2>4 DEF CheckThreshold
<1> HIDE DEF b
<1>6. Both(c, b)
  <2>1. CASE previous[l] < Full /\ v = Full /\ Enabled(Depleted(l))
    <3>1. c = Mark(b, Depleted(l)) /\ Depleted(l) \in Keys
      BY <2>1, <1>1 DEF CheckSession, Keys, Families, Depleted
    <3> QED
      BY <3>1, <1>5, <1>2
  <2>2. CASE previous[l] = Full /\ v < Full /\ Depleted(l) \in Known(b)
    <3> DEFINE n == Forget(b, {Depleted(l)})
    <3>1. \E r : c = [n EXCEPT !.out = r]
      BY <2>2, <1>1 DEF CheckSession
    <3>2. Both(n, b) /\ n \in Managers
      BY <1>5, <1>3, ForgetSound DEF Follows, IsManager
    <3> HIDE DEF n
    <3>3. c.sent = n.sent /\ c.durable = n.durable /\ c.lost = n.lost
      BY <3>1, <3>2 DEF Managers
    <3> QED
      BY <3>2, <3>3 DEF Doubled, Recorded
  <2>3. CASE c = b
    BY <2>3
  <2> QED
    BY <2>1, <2>2, <2>3 DEF CheckSession
<1>7. Observed(l, v) = IF l \in Sessions THEN c ELSE b
  BY DEF Observed, a, b
<1> HIDE DEF c
<1> QED
  BY <1>4, <1>5, <1>6, <1>7

\* What is announced about thresholds, and about sessions, without exception.
ThresholdsOnce ==
    [][{k \in announced' : k[2] = "threshold"} = given' \ given]_vars
RestoredPaired ==
    [][\A l \in Lanes : Restored(l) \in announced' => l \in open]_vars

\* Without forgetfulness the two properties hold without their exceptions.
LEMMA NothingForgotten ==
    Spec /\ []~forgetful => ThresholdsOnce /\ RestoredPaired
<1> DEFINE Once == {k \in announced' : k[2] = "threshold"} = given' \ given
           Pair == \A l \in Lanes : Restored(l) \in announced' => l \in open
<1>1. ~forgetful /\ (~forgetful)' /\ [~forgetful' => Once]_vars => [Once]_vars
  OBVIOUS
<1>2. ~forgetful /\ [~forgetful => Pair]_vars => [Pair]_vars
  OBVIOUS
<1> HIDE DEF Once, Pair
<1>3. Spec => [][~forgetful' => Once]_vars /\ [][~forgetful => Pair]_vars
  BY AlertsOnce, RestoredInOrder, PTL
     DEF AlertsOncePerEpisode, RestoredFollowsDepleted, Once, Pair
<1>4. ([][Once]_vars <=> ThresholdsOnce) /\ ([][Pair]_vars <=> RestoredPaired)
  BY DEF ThresholdsOnce, RestoredPaired, Once, Pair
<1> QED
  BY <1>1, <1>2, <1>3, <1>4, PTL

\* The first process forgets nothing, however small its memory is: what it
\* drops from the one it still has in the other.  So no threshold is announced
\* twice and nothing is restored that was not depleted.
THEOREM NoLossBeforeRestart == Spec /\ OneProcess => ThresholdsOnce /\ RestoredPaired
<1> DEFINE J == ~forgetful /\ durable.keys \subseteq sent
<1>1. Init => J
  BY DEF Init, Empty
<1>2. Inv /\ J /\ [Next]_vars /\ [~Restart]_vars => J'
  <2> SUFFICES ASSUME Inv, J, [Next]_vars, [~Restart]_vars PROVE J'
    OBVIOUS
  <2>1. CASE NotifyOff \/ ChangeSettings \/ UNCHANGED vars
    BY <2>1 DEF NotifyOff, ChangeSettings, vars, memory, history
  <2>2. CASE Notify
    <3>1. PICK l \in Lanes, v \in Levels :
            /\ sent' = Observed(l, v).sent /\ durable' = Observed(l, v).durable
            /\ forgetful' = (forgetful \/ Observed(l, v).lost)
      BY <2>2 DEF Notify
    <3>2. TypeInv /\ Doubled(Manager)
      BY ManagerSound DEF Inv, Doubled
    <3>3. Doubled(Observed(l, v))
      BY <3>2, ObservedBoth
    <3> QED
      BY <3>1, <3>3 DEF Doubled
  <2>3. ~Restart \/ UNCHANGED vars
    OBVIOUS
  <2> QED
    BY <2>1, <2>2, <2>3 DEF Next
<1>3. Spec /\ OneProcess => []~forgetful
  BY <1>1, <1>2, InvInit, InvStep, PTL DEF Spec, OneProcess
<1> QED
  BY <1>3, NothingForgotten, PTL

\* Every restart finds in the file what the memory holds: the last write of
\* the process before came through.
FileKeepsUp == [][Restart => stored = durable]_vars

\* With room for all keys and a file that keeps up, restarts lose nothing.
THEOREM LossNeedsFault ==
    ASSUME Roomy PROVE Spec /\ FileKeepsUp => ThresholdsOnce /\ RestoredPaired
<1> DEFINE J == ~forgetful /\ sent \subseteq durable.keys
<1>1. Init => J
  BY DEF Init, Empty
<1>2. Inv /\ J /\ [Next]_vars /\ [Restart => stored = durable]_vars => J'
  <2> SUFFICES ASSUME Inv, J, [Next]_vars, [Restart => stored = durable]_vars PROVE J'
    OBVIOUS
  <2>1. CASE NotifyOff \/ ChangeSettings \/ UNCHANGED vars
    BY <2>1 DEF NotifyOff, ChangeSettings, vars, memory, history
  <2>2. CASE Notify
    <3>1. PICK l \in Lanes, v \in Levels :
            /\ sent' = Observed(l, v).sent /\ durable' = Observed(l, v).durable
            /\ forgetful' = (forgetful \/ Observed(l, v).lost)
      BY <2>2 DEF Notify
    <3>2. TypeInv /\ Recorded(Manager)
      BY ManagerSound DEF Inv, Recorded
    <3>3. Recorded(Observed(l, v))
      BY <3>2, ObservedBoth
    <3> QED
      BY <3>1, <3>3 DEF Recorded
  <2>3. CASE Restart /\ stored = durable
    <3>1. durable # Unreadable
      BY UnreadableIsNoFile DEF Inv, TypeInv, Fits, Ordered
    <3>2. sent' = {} /\ durable' = durable
          /\ forgetful' = (forgetful \/ durable.keys # Known(Manager))
      BY <2>3, <3>1 DEF Restart
    <3>3. Known(Manager) = durable.keys
      BY ManagerSound DEF Inv, Marked
    <3> QED
      BY <3>2, <3>3
  <2> QED
    BY <2>1, <2>2, <2>3 DEF Next
<1>3. Spec /\ FileKeepsUp => []~forgetful
  BY <1>1, <1>2, InvInit, InvStep, PTL DEF Spec, FileKeepsUp
<1> QED
  BY <1>3, NothingForgotten, PTL

=============================================================================
