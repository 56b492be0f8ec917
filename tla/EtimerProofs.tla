----------------------------- MODULE EtimerProofs ------------------------------
(***************************************************************************)
(* Theorems about event timers, for every set of timers and processes,     *)
(* every clock and queue size, and runs of less than half a turn of the    *)
(* clock (ClockAssumption), which may start anywhere on it.  That the list *)
(* is sound needs no more.  That no timer is missed, and that etimer.c     *)
(* implements the timer service, need Spans: every interval, also after an *)
(* adjustment, is less than half a turn, the longest time CLOCK_LT can     *)
(* tell from the past.                                                     *)
(***************************************************************************)
EXTENDS Etimer, DataLemmas, WellFoundedInduction, TLAPS

\* the smallest of a set of clock values
LEMMA LeastIs ==
  ASSUME NEW S \in SUBSET Clock, S # {}
  PROVE  \E x \in S : \A y \in S : x <= y
<1>1. S \in SUBSET Nat
  BY ClockAssumption DEF Clock
<1>2. PICK x \in S : \A y \in S : ~(<<y, x>> \in OpToRel(<, Nat))
  BY <1>1, NatLessThanWellFounded, WFMin
<1>3. ASSUME NEW y \in S
      PROVE  x <= y
  <2>1. <<y, x>> \in Nat \X Nat /\ <<y, x>>[1] = y /\ <<y, x>>[2] = x
    BY <1>1
  <2>2. ~(y < x)
    BY <1>2, <2>1 DEF OpToRel
  <2>3. x \in Nat /\ y \in Nat
    BY <1>1
  <2> QED
    BY <2>2, <2>3
<1> QED
  BY <1>3

LEMMA NearestIs ==
  ASSUME NEW S \in SUBSET Clock, S # {}
  PROVE  Nearest(S) \in S /\ \A y \in S : Nearest(S) <= y
BY LeastIs DEF Nearest

LEMMA ShortestIs == Shortest \in Interval /\ \A i \in Interval : Shortest <= i
BY LeastIs, ClockAssumption DEF Shortest

--------------------------------------------------------------------------------
(* Clock arithmetic.                                                       *)

LEMMA PlusIs ==
  ASSUME NEW a \in Clock, NEW b \in Clock
  PROVE  Plus(a, b) \in Clock /\ Plus(a, b) = IF a + b < ClockSize THEN a + b ELSE a + b - ClockSize
<1> DEFINE x == a + b
<1>1. ClockSize \in Nat /\ ClockSize > 0 /\ x \in Nat /\ x < 2 * ClockSize
  BY ClockAssumption DEF Clock
<1>2. Plus(a, b) = IF a + b < ClockSize THEN a + b ELSE a + b - ClockSize
  <2> HIDE DEF x
  <2>1. x % ClockSize = IF x < ClockSize THEN x ELSE x - ClockSize
    BY <1>1, ModOnce
  <2>2. Plus(a, b) = x % ClockSize
    BY DEF Plus, x
  <2>3. Plus(a, b) = IF x < ClockSize THEN x ELSE x - ClockSize
    BY <2>1, <2>2
  <2> QED
    BY <2>3, ClockAssumption DEF x, Clock
<1> QED
  BY <1>1, <1>2 DEF Clock

LEMMA MinusIs ==
  ASSUME NEW a \in Clock, NEW b \in Clock
  PROVE  Minus(a, b) \in Clock /\ Minus(a, b) = IF a < b THEN a - b + ClockSize ELSE a - b
<1> DEFINE x == a + ClockSize - b
<1>1. ClockSize \in Nat /\ ClockSize > 0 /\ x \in Nat /\ x < 2 * ClockSize
  BY ClockAssumption DEF Clock
<1>2. Minus(a, b) = IF x < ClockSize THEN x ELSE x - ClockSize
  <2> HIDE DEF x
  <2>1. x % ClockSize = IF x < ClockSize THEN x ELSE x - ClockSize
    BY <1>1, ModOnce
  <2>2. Minus(a, b) = x % ClockSize
    BY DEF Minus, x
  <2> QED
    BY <2>1, <2>2, ClockAssumption DEF x, Clock
<1> QED
  BY <1>1, <1>2, ClockAssumption DEF Clock

(* A timer that is not expired has its interval less what is over to go.   *)
(* timer_expired adds 1 to what is over, which must not wrap to 0.         *)
LEMMA ToGo ==
  ASSUME NEW s \in Clock, NEW i \in Clock, NEW c \in Clock, Minus(c, s) < ClockSize - 1
  PROVE  /\ ~Expired(s, i, c) => Minus(Plus(s, i), c) = i - Minus(c, s)
         /\ Expired(s, i, c) => Minus(c, Plus(s, i)) = Minus(c, s) - i
         /\ Expired(s, i, c) /\ i # Minus(c, s)
              => Minus(Plus(s, i), c) = i - Minus(c, s) + ClockSize
         /\ i = Minus(c, s) => Plus(s, i) = c /\ Minus(Plus(s, i), c) = 0
         /\ Expired(s, i, c) <=> i <= Minus(c, s)
<1>1. Plus(s, i) \in Clock
  BY PlusIs
<1>2. /\ Plus(s, i) = IF s + i < ClockSize THEN s + i ELSE s + i - ClockSize
      /\ Minus(c, s) = IF c < s THEN c - s + ClockSize ELSE c - s
      /\ Minus(Plus(s, i), c) = IF Plus(s, i) < c THEN Plus(s, i) - c + ClockSize ELSE Plus(s, i) - c
      /\ Minus(c, Plus(s, i)) = IF c < Plus(s, i) THEN c - Plus(s, i) + ClockSize ELSE c - Plus(s, i)
  BY <1>1, PlusIs, MinusIs
<1>3. Expired(s, i, c) <=> i <= Minus(c, s)
  <2>1. Minus(c, s) \in Clock
    BY MinusIs
  <2>2. 1 \in Clock /\ Minus(c, s) + 1 < ClockSize
    BY <2>1, ClockAssumption DEF Clock
  <2>3. Plus(Minus(c, s), 1) = Minus(c, s) + 1
    BY <2>1, <2>2, PlusIs
  <2> QED
    BY <2>1, <2>3, ClockAssumption DEF Clock, Expired
<1> QED
  BY <1>1, <1>2, <1>3, ClockAssumption DEF Clock

\* a tick
LEMMA OneMore ==
  ASSUME NEW s \in Clock, NEW c \in Clock, Minus(c, s) < ClockSize - 1, 1 \in Clock
  PROVE  Minus(Plus(c, 1), s) = Minus(c, s) + 1
<1>1. Plus(c, 1) \in Clock
  BY PlusIs
<1>2. /\ Plus(c, 1) = IF c + 1 < ClockSize THEN c + 1 ELSE c + 1 - ClockSize
      /\ Minus(c, s) = IF c < s THEN c - s + ClockSize ELSE c - s
      /\ Minus(Plus(c, 1), s) = IF Plus(c, 1) < s THEN Plus(c, 1) - s + ClockSize ELSE Plus(c, 1) - s
  BY <1>1, PlusIs, MinusIs
<1> QED
  BY <1>1, <1>2, ClockAssumption DEF Clock

\* from a time c on, a time m later that is not after e
LEMMA Between ==
  ASSUME NEW e \in Clock, NEW c \in Clock, NEW m \in Clock, m <= Minus(e, c)
  PROVE  Minus(e, Plus(c, m)) = Minus(e, c) - m
<1>1. Plus(c, m) \in Clock
  BY PlusIs
<1>2. /\ Plus(c, m) = IF c + m < ClockSize THEN c + m ELSE c + m - ClockSize
      /\ Minus(e, c) = IF e < c THEN e - c + ClockSize ELSE e - c
      /\ Minus(e, Plus(c, m)) = IF e < Plus(c, m) THEN e - Plus(c, m) + ClockSize ELSE e - Plus(c, m)
  BY <1>1, PlusIs, MinusIs
<1> QED
  BY <1>1, <1>2, ClockAssumption DEF Clock

\* a start, or an expiry, that is moved by d
LEMMA Moved ==
  ASSUME NEW s \in Clock, NEW d \in Clock, NEW c \in Clock
  PROVE  /\ Minus(c, Plus(s, d)) = IF d <= Minus(c, s) THEN Minus(c, s) - d ELSE Minus(c, s) - d + ClockSize
         /\ Minus(s, c) + d < ClockSize => Minus(Plus(s, d), c) = Minus(s, c) + d
<1>1. Plus(s, d) \in Clock
  BY PlusIs
<1>2. /\ Plus(s, d) = IF s + d < ClockSize THEN s + d ELSE s + d - ClockSize
      /\ Minus(c, s) = IF c < s THEN c - s + ClockSize ELSE c - s
      /\ Minus(s, c) = IF s < c THEN s - c + ClockSize ELSE s - c
      /\ Minus(c, Plus(s, d)) = IF c < Plus(s, d) THEN c - Plus(s, d) + ClockSize ELSE c - Plus(s, d)
      /\ Minus(Plus(s, d), c) = IF Plus(s, d) < c THEN Plus(s, d) - c + ClockSize ELSE Plus(s, d) - c
  BY <1>1, PlusIs, MinusIs
<1> QED
  BY <1>1, <1>2, ClockAssumption DEF Clock

LEMMA PlusTwice ==
  ASSUME NEW s \in Clock, NEW d \in Clock, NEW i \in Clock
  PROVE  Plus(Plus(s, d), i) = Plus(Plus(s, i), d)
<1>1. Plus(s, d) \in Clock /\ Plus(s, i) \in Clock
  BY PlusIs
<1>2. /\ Plus(s, d) = IF s + d < ClockSize THEN s + d ELSE s + d - ClockSize
      /\ Plus(s, i) = IF s + i < ClockSize THEN s + i ELSE s + i - ClockSize
      /\ Plus(Plus(s, d), i) = IF Plus(s, d) + i < ClockSize THEN Plus(s, d) + i ELSE Plus(s, d) + i - ClockSize
      /\ Plus(Plus(s, i), d) = IF Plus(s, i) + d < ClockSize THEN Plus(s, i) + d ELSE Plus(s, i) + d - ClockSize
  BY <1>1, PlusIs
<1> QED
  BY <1>1, <1>2, ClockAssumption DEF Clock

\* the present is 0 ticks after itself
LEMMA MinusSelf ==
  ASSUME NEW c \in Clock
  PROVE  Minus(c, c) = 0
BY MinusIs DEF Clock

--------------------------------------------------------------------------------
USE DEF list, times, kernel, flow

(***************************************************************************)
(* The list.                                                               *)
(***************************************************************************)
\* the invariant of the list needs no clock
Sound == Acyclic(Timer, NULL, next, timerlist)
SoundInv == TypeOK /\ Sound /\ ListSound

USE DEF list, times, kernel, flow

LEMMA NullIs == NULL \notin Timer /\ NULL \notin Proc /\ NULL \notin Int
BY NullAssumption

LEMMA ClockIs ==
  ASSUME TypeOK
  PROVE  clock_time \in Clock /\ now \in Clock
<1>1. now \in Clock /\ Boot \in Clock
  BY ClockAssumption DEF TypeOK, Clock
<1> QED
  BY <1>1, PlusIs DEF clock_time

LEMMA ZeroIs == 0 \in Clock
BY ClockAssumption DEF Clock

LEMMA ListedIs ==
  ASSUME TypeOK
  PROVE  /\ Listed \subseteq Timer
         /\ timerlist \in Listed \cup {NULL}
         /\ \A et \in Listed : next[et] \in Listed \cup {NULL}
BY NullIs, ReachClosed DEF TypeOK, Listed, Visits

LEMMA ListSame ==
  ASSUME UNCHANGED <<timerlist, next>>
  PROVE  /\ Listed' = Listed /\ (Sound => Sound')
         /\ \A c : Visits(c)' = Visits(c)
BY DEF Listed, Visits, Sound

\* add_timer
LEMMA ListAdded ==
  ASSUME SoundInv, NEW et \in Timer, NEW q \in Proc, add_timer(et, q)
  PROVE  /\ Listed' = Listed \cup {et} /\ Sound'
         /\ timerlist' \in Timer \cup {NULL} /\ next' \in [Timer -> Timer \cup {NULL}]
<1>1. /\ timerlist \in Timer \cup {NULL} /\ next \in [Timer -> Timer \cup {NULL}]
      /\ p \in [Timer -> Proc \cup {NULL}] /\ alive \subseteq Proc
  BY DEF SoundInv, TypeOK
<1>2. CASE et \in Listed
  <2>1. p[et] # NULL
    BY <1>1, <1>2, NullIs DEF SoundInv, ListSound, OwnersRun
  <2>2. UNCHANGED <<timerlist, next>>
    BY <1>2, <2>1 DEF add_timer
  <2> QED
    BY <1>1, <1>2, <2>2, ListSame DEF SoundInv
<1>3. CASE et \notin Listed
  <2>1. timerlist' = et /\ next' = [next EXCEPT ![et] = timerlist]
    BY <1>3 DEF add_timer
  <2>2. next' \in [Timer -> Timer \cup {NULL}] /\ next'[et] = timerlist /\ \A y \in Timer \ {et} : next'[y] = next[y]
    BY <1>1, <2>1
  <2>3. /\ Reachable(Timer, NULL, next', et) = {et} \cup Reachable(Timer, NULL, next, timerlist)
        /\ Acyclic(Timer, NULL, next', et)
    BY <1>1, <1>3, <2>2, NullIs, ListPush DEF SoundInv, Sound, Listed, Visits
  <2> QED
    BY <2>1, <2>2, <2>3 DEF Listed, Visits, Sound
<1> QED
  BY <1>2, <1>3

\* etimer_stop
LEMMA ListStopped ==
  ASSUME SoundInv, NEW et \in Timer, etimer_stop(et)
  PROVE  /\ Listed' = Listed \ {et} /\ Sound'
         /\ timerlist' \in Timer \cup {NULL} /\ next' \in [Timer -> Timer \cup {NULL}]
<1> DEFINE On == Reachable(Timer, NULL, next, timerlist)
           h2 == IF timerlist = et THEN next[et] ELSE timerlist
           next2 == Without(Timer, On, next, et)
           next3 == [next2 EXCEPT ![et] = NULL]
<1>1. timerlist \in Timer \cup {NULL} /\ next \in [Timer -> Timer \cup {NULL}] /\ Acyclic(Timer, NULL, next, timerlist)
  BY DEF SoundInv, TypeOK, Sound
<1>2. timerlist' = h2 /\ next' = next3
  BY DEF etimer_stop, Bypass, Without, Listed, Visits
<1>3. next2 \in [Timer -> Timer \cup {NULL}] /\ h2 \in Timer \cup {NULL}
  BY <1>1 DEF Without
<1>4. next3 \in [Timer -> Timer \cup {NULL}] /\ \A y \in Timer \ {et} : next3[y] = next2[y]
  BY <1>3
<1>5. Reachable(Timer, NULL, next2, h2) = On \ {et} /\ Acyclic(Timer, NULL, next2, h2)
  <2>1. CASE et \in On
    <3>1. et \notin Reachable(Timer, NULL, next, next[et])
      BY <1>1, <2>1 DEF Acyclic
    <3> QED
      BY <1>1, <3>1, NullIs, ListWithout
  <2>2. CASE et \notin On
    <3>1. On \subseteq Timer /\ timerlist \in On \cup {NULL} /\ \A y \in On : next[y] \in On \cup {NULL}
      BY <1>1, NullIs, ReachClosed
    <3>2. h2 = timerlist /\ \A y \in On : next[y] # et
      BY <2>2, <3>1, NullIs
    <3>3. next2 = next
      BY <1>1, <3>2 DEF Without
    <3> QED
      BY <1>1, <2>2, <3>2, <3>3
  <2> QED
    BY <2>1, <2>2
<1> HIDE DEF next3, next2, h2, On
<1>6. \A c \in Timer \cup {NULL} : et \notin Reachable(Timer, NULL, next2, c)
        => Reachable(Timer, NULL, next3, c) = Reachable(Timer, NULL, next2, c)
  <2>1. ASSUME NEW c \in Timer \cup {NULL}, et \notin Reachable(Timer, NULL, next2, c)
        PROVE  Reachable(Timer, NULL, next3, c) = Reachable(Timer, NULL, next2, c)
    <3>1. Reachable(Timer, NULL, next2, c) \subseteq Timer
      BY <1>3, <2>1, NullIs, ReachClosed
    <3>2. \A y \in Reachable(Timer, NULL, next2, c) : next3[y] = next2[y]
      BY <1>4, <2>1, <3>1
    <3> QED
      BY <1>3, <1>4, <2>1, <3>2, NullIs, ReachSame
  <2> QED
    BY <2>1
<1>7. Reachable(Timer, NULL, next3, h2) = On \ {et}
  BY <1>3, <1>5, <1>6
<1>8. ASSUME NEW y \in On \ {et}
      PROVE  y \notin Reachable(Timer, NULL, next3, next3[y])
  <2>1. y \in Timer /\ next3[y] = next2[y] /\ next2[y] \in Timer \cup {NULL}
    BY <1>1, <1>3, <1>4, <1>5, <1>8, NullIs, ReachClosed DEF On
  <2>2. y \notin Reachable(Timer, NULL, next2, next2[y])
    BY <1>5, <1>8 DEF Acyclic
  <2>3. Reachable(Timer, NULL, next2, next2[y]) \subseteq On \ {et}
    BY <1>3, <1>5, <1>8, NullIs, ReachClosed, ReachFurther
  <2> QED
    BY <1>6, <2>1, <2>2, <2>3
<1>9. Acyclic(Timer, NULL, next3, h2)
  BY <1>7, <1>8 DEF Acyclic
<1> QED
  BY <1>2, <1>3, <1>4, <1>7, <1>9 DEF Sound, Listed, Visits, On

\* etimer_process posts for t
LEMMA ListPosted ==
  ASSUME SoundInv, ScanPosts
  PROVE  /\ t \in Listed /\ Listed' = Listed \ {t} /\ Sound'
         /\ timerlist' \in Timer \cup {NULL} /\ next' \in [Timer -> Timer \cup {NULL}]
<1> DEFINE On == Reachable(Timer, NULL, next, timerlist)
           h2 == IF timerlist = t THEN next[t] ELSE timerlist
           next2 == Without(Timer, On, next, t)
<1>1. /\ timerlist \in Timer \cup {NULL} /\ next \in [Timer -> Timer \cup {NULL}]
      /\ Acyclic(Timer, NULL, next, timerlist)
      /\ t \in Timer /\ u \in Timer \cup {NULL}
  BY DEF SoundInv, TypeOK, Sound, ScanPosts
<1>2. /\ t \in On
      /\ IF u = NULL THEN t = timerlist ELSE u \in On /\ next[u] = t
  BY DEF SoundInv, ListSound, CursorsListed, ScanPosts, Listed, Visits
<1>3. On \subseteq Timer /\ timerlist \in On \cup {NULL} /\ \A y \in On : next[y] \in On \cup {NULL}
  BY <1>1, NullIs, ReachClosed
<1>4. /\ timerlist' = IF u = NULL THEN next[t] ELSE timerlist
      /\ next' = [x \in Timer |-> IF x = t THEN NULL ELSE IF x = u THEN next[t] ELSE next[x]]
  BY DEF ScanPosts
<1>5. \A y \in On : next[y] # NULL => next[y] # timerlist /\ \A z \in On : next[z] = next[y] => z = y
  BY <1>1, NullIs, ListBefore
<1>6. t \notin Reachable(Timer, NULL, next, next[t]) /\ next[t] # t
  <2>1. t \notin Reachable(Timer, NULL, next, next[t])
    BY <1>1, <1>2 DEF Acyclic
  <2> QED
    BY <1>1, <2>1, NullIs, ReachClosed
<1>7. timerlist' = h2
  BY <1>1, <1>2, <1>3, <1>4, <1>5, NullIs
<1>8. /\ next2 \in [Timer -> Timer \cup {NULL}]
      /\ \A y \in Timer : next2[y] = IF y \in On /\ next[y] = t THEN next[t] ELSE next[y]
  BY <1>1 DEF Without
<1>9. next' \in [Timer -> Timer \cup {NULL}] /\ \A y \in On \ {t} : next'[y] = next2[y]
  <2>1. next' \in [Timer -> Timer \cup {NULL}]
    BY <1>1, <1>4
  <2>2. ASSUME NEW y \in On \ {t}
        PROVE  next'[y] = next2[y]
    <3>1. y \in Timer /\ next'[y] = IF y = u THEN next[t] ELSE next[y]
      BY <1>3, <1>4
    <3>2. next[y] = t <=> y = u
      BY <1>1, <1>2, <1>5, NullIs, <2>2, <1>3
    <3> QED
      BY <1>8, <3>1, <3>2
  <2> QED
    BY <2>1, <2>2
<1>10. Reachable(Timer, NULL, next2, h2) = On \ {t} /\ Acyclic(Timer, NULL, next2, h2)
  BY <1>1, <1>6, NullIs, ListWithout
<1>11. h2 \in Timer \cup {NULL}
  BY <1>1
<1> HIDE DEF next2, h2, On
<1>12. \A c \in Timer \cup {NULL} : Reachable(Timer, NULL, next2, c) \subseteq On \ {t}
        => Reachable(Timer, NULL, next', c) = Reachable(Timer, NULL, next2, c)
  BY <1>8, <1>9, NullIs, ReachSame
<1>13. Reachable(Timer, NULL, next', h2) = On \ {t}
  BY <1>10, <1>11, <1>12
<1>14. ASSUME NEW y \in On \ {t}
       PROVE  y \notin Reachable(Timer, NULL, next', next'[y])
  <2>1. y \in Timer /\ next'[y] = next2[y] /\ next2[y] \in Timer \cup {NULL}
    BY <1>3, <1>8, <1>9, <1>14
  <2>2. y \notin Reachable(Timer, NULL, next2, next2[y])
    BY <1>10, <1>14 DEF Acyclic
  <2>3. Reachable(Timer, NULL, next2, next2[y]) \subseteq On \ {t}
    BY <1>8, <1>10, <1>11, <1>14, NullIs, ReachClosed, ReachFurther
  <2> QED
    BY <1>12, <2>1, <2>2, <2>3
<1>15. Acyclic(Timer, NULL, next', h2)
  BY <1>13, <1>14 DEF Acyclic
<1> QED
  BY <1>2, <1>7, <1>9, <1>11, <1>13, <1>15 DEF Sound, Listed, Visits, On

\* the timers of a process that exits are purged
LEMMA ListPurged ==
  ASSUME SoundInv, NEW q \in Proc, Exited(q)
  PROVE  /\ Listed' = {x \in Listed : p[x] # q} /\ Sound'
         /\ timerlist' \in Timer \cup {NULL} /\ next' \in [Timer -> Timer \cup {NULL}]
<1> DEFINE S == {x \in Listed : p[x] # q}
           F(c) == FirstOf(Timer, NULL, next, S, c)
<1>1. /\ timerlist \in Timer \cup {NULL} /\ next \in [Timer -> Timer \cup {NULL}]
      /\ Acyclic(Timer, NULL, next, timerlist)
      /\ S \subseteq Reachable(Timer, NULL, next, timerlist)
      /\ S \subseteq Timer
  BY ListedIs DEF SoundInv, TypeOK, Sound, Listed, Visits
<1>2. \A c : First(S, c) = F(c)
  BY DEF First, FirstOf, Visits
<1>3. /\ timerlist' = First(S, timerlist)
      /\ next' = [x \in Timer |-> IF x \in S THEN First(S, next[x]) ELSE next[x]]
  BY DEF Exited
<1>4. \A c \in Timer \cup {NULL} : F(c) \in Timer \cup {NULL}
  BY <1>1, NullIs, FirstIs
<1> HIDE DEF F, S
<1>5. timerlist' = F(timerlist) /\ next' \in [Timer -> Timer \cup {NULL}] /\ \A x \in S : next'[x] = F(next[x])
  BY <1>1, <1>2, <1>3, <1>4
<1>6. Reachable(Timer, NULL, next', F(timerlist)) = S /\ Acyclic(Timer, NULL, next', F(timerlist))
  BY <1>1, <1>5, NullIs, ListOnly DEF F
<1> QED
  BY <1>1, <1>4, <1>5, <1>6 DEF Sound, Listed, Visits, S

LEMMA ComputeIs ==
  ASSUME TypeOK
  PROVE  /\ Compute \in Clock
         /\ timerlist # NULL =>
              \E m \in Clock : /\ Compute = Plus(clock_time, m)
                               /\ \A et \in Listed : m <= Minus(Expiry(et), clock_time)
<1> DEFINE D == {Minus(Expiry(et), clock_time) : et \in Listed}
<1>1. clock_time \in Clock
  BY ClockIs
<1>2. ASSUME NEW et \in Listed
      PROVE  Minus(Expiry(et), clock_time) \in Clock
  <2>1. start[et] \in Clock /\ interval[et] \in Clock
    BY ListedIs DEF TypeOK
  <2>2. Expiry(et) \in Clock
    BY <2>1, PlusIs DEF Expiry
  <2> QED
    BY <1>1, <2>2, MinusIs
<1>3. CASE timerlist # NULL
  <2>1. timerlist \in Listed
    BY <1>3, ListedIs
  <2>2. D \in SUBSET Clock /\ D # {}
    BY <1>2, <2>1
  <2> HIDE DEF D
  <2>3. Nearest(D) \in D /\ \A y \in D : Nearest(D) <= y
    BY <2>2, NearestIs
  <2>4. Compute = Plus(clock_time, Nearest(D))
    BY <1>3 DEF Compute, D
  <2>5. \A et \in Listed : Minus(Expiry(et), clock_time) \in D
    BY DEF D
  <2>6. Nearest(D) \in Clock
    BY <2>2, <2>3
  <2>7. Compute \in Clock
    BY <1>1, <2>4, <2>6, PlusIs
  <2> QED
    BY <2>3, <2>4, <2>5, <2>6, <2>7
<1>4. CASE timerlist = NULL
  BY <1>4, ZeroIs DEF Compute
<1> QED
  BY <1>3, <1>4

LEMMA InitIsSound == Init => SoundInv
<1> SUFFICES ASSUME Init
             PROVE  SoundInv
  OBVIOUS
<1>1. Shortest \in Clock /\ Boot \in Clock /\ 0 \in 0 .. MaxTime /\ 0 \in Clock
  BY ShortestIs, ClockAssumption, ZeroIs
<1>2. Minus(Boot, Shortest) \in Clock
  BY <1>1, MinusIs
<1>3. TypeOK
  <2>1. queue \in Seq(Event) /\ Len(queue) <= NumEvents
    BY NumEventsAssumption DEF Init
  <2>2. next_expiration \in Clock /\ fresh \in Clock /\ now \in 0 .. MaxTime
    BY <1>1 DEF Init
  <2>3. start \in [Timer -> Clock] /\ interval \in [Timer -> Clock]
    BY <1>1, <1>2 DEF Init
  <2> QED
    BY <2>1, <2>2, <2>3 DEF Init, TypeOK
<1>4. Listed = {}
  BY ReachNull DEF Init, Listed, Visits
<1>5. Sound
  BY <1>4 DEF Sound, Acyclic, Listed, Visits
<1>6. ListSound
  BY <1>4 DEF ListSound, OwnersRun, CursorsListed, Init
<1> QED
  BY <1>3, <1>5, <1>6 DEF SoundInv

(* What the calls of a process do to start and interval.                   *)
SetBy(et, q) ==
  \/ \E i \in Interval : etimer_set(et, i, q) \/ etimer_reset_with_new_interval(et, i, q)
  \/ etimer_reset(et, q) \/ etimer_restart(et, q)

LEMMA SetIs ==
  ASSUME TypeOK, NEW et \in Timer, NEW q \in User[et], SetBy(et, q)
  PROVE  /\ pc = "idle" /\ q \in alive /\ q \in Proc /\ add_timer(et, q)
         /\ start' \in [Timer -> Clock] /\ interval' \in [Timer -> Clock]
         /\ \A o \in Timer \ {et} : start'[o] = start[o] /\ interval'[o] = interval[o]
         /\ interval'[et] = interval[et] \/ interval'[et] \in Interval
         /\ start'[et] \in {clock_time, Restarted(et)}
<1>1. /\ start \in [Timer -> Clock] /\ interval \in [Timer -> Clock] /\ Interval \subseteq Clock
      /\ clock_time \in Clock /\ q \in Proc
  BY ClockIs, ClockAssumption DEF TypeOK
<1>2. Restarted(et) \in Clock
  <2>1. start[et] \in Clock /\ interval[et] \in Clock
    BY <1>1
  <2> QED
    BY <2>1, PlusIs DEF Restarted, Expiry
<1>3. CASE \E i \in Interval : etimer_set(et, i, q)
  BY <1>1, <1>3 DEF etimer_set
<1>4. CASE \E i \in Interval : etimer_reset_with_new_interval(et, i, q)
  BY <1>1, <1>2, <1>4 DEF etimer_reset_with_new_interval
<1>5. CASE etimer_reset(et, q)
  BY <1>1, <1>2, <1>5 DEF etimer_reset
<1>6. CASE etimer_restart(et, q)
  BY <1>1, <1>6 DEF etimer_restart
<1> QED
  BY <1>3, <1>4, <1>5, <1>6 DEF SetBy

LEMMA TypesKept ==
  ASSUME SoundInv, [Next]_vars
  PROVE  TypeOK'
<1> USE DEF TypeOK
<1>1. TypeOK /\ Sound
  BY DEF SoundInv
<1>2. CASE Tick
  <2>1. now' \in 0 .. MaxTime
    BY <1>1, <1>2, ClockAssumption DEF Tick
  <2>2. poll' \in BOOLEAN
    BY <1>2, Zenon DEF Tick
  <2> QED
    BY <1>1, <1>2, <2>1, <2>2 DEF Tick
<1>3. CASE Poll
  BY <1>1, <1>3 DEF Poll
<1>4. CASE Again
  BY <1>1, <1>4 DEF Again
<1>5. CASE ScanEnds
  BY <1>1, <1>5 DEF ScanEnds
<1>6. CASE ScanPasses
  BY <1>1, <1>6 DEF ScanPasses
<1>7. CASE ScanBlocked
  BY <1>1, <1>7 DEF ScanBlocked
<1>8. CASE ScanPosts
  <2>1. t \in Listed /\ timerlist' \in Timer \cup {NULL} /\ next' \in [Timer -> Timer \cup {NULL}]
    BY <1>8, ListPosted
  <2>2. t \in Timer /\ p[t] \in Proc
    BY <1>1, <2>1, ListedIs DEF SoundInv, ListSound, OwnersRun
  <2>3. [p |-> p[t], et |-> t] \in Event
    BY <2>2 DEF Event
  <2>4. queue' \in Seq(Event) /\ Len(queue') <= NumEvents
    BY <1>1, <1>8, <2>3, NumEventsAssumption DEF ScanPosts
  <2>5. p' \in [Timer -> Proc \cup {NULL}]
    BY <1>1, <1>8 DEF ScanPosts
  <2> QED
    BY <1>1, <1>8, <2>1, <2>4, <2>5 DEF ScanPosts, update_time
<1>9. CASE Update
  BY <1>1, <1>9, ComputeIs DEF Update
<1>10. CASE Store
  BY <1>1, <1>10, ZeroIs DEF Store
<1>11. ASSUME NEW et \in Timer, NEW q \in User[et], SetBy(et, q)
       PROVE  TypeOK'
  <2>1. /\ q \in alive /\ q \in Proc /\ add_timer(et, q)
        /\ start' \in [Timer -> Clock] /\ interval' \in [Timer -> Clock]
    BY <1>1, <1>11, SetIs
  <2>2. timerlist' \in Timer \cup {NULL} /\ next' \in [Timer -> Timer \cup {NULL}]
    BY <2>1, ListAdded
  <2> QED
    BY <1>1, <2>1, <2>2 DEF add_timer, update_time
<1>12. ASSUME NEW et \in Timer, etimer_stop(et)
       PROVE  TypeOK'
  <2>1. timerlist' \in Timer \cup {NULL} /\ next' \in [Timer -> Timer \cup {NULL}]
    BY <1>12, ListStopped
  <2>2. p' \in [Timer -> Proc \cup {NULL}]
    BY <1>1, <1>12 DEF etimer_stop
  <2>3. pc' \in {"idle", "update"} /\ ret' \in {"idle", "again"}
    BY <1>1, <1>12 DEF etimer_stop, update_time
  <2> QED
    BY <1>1, <1>12, <2>1, <2>2, <2>3 DEF etimer_stop
<1>13. ASSUME NEW et \in Timer, NEW d \in Diff, etimer_adjust(et, d)
       PROVE  TypeOK'
  <2>1. start[et] \in Clock /\ d \in Clock
    BY <1>1, ClockAssumption
  <2>2. Plus(start[et], d) \in Clock
    BY <2>1, PlusIs
  <2> QED
    BY <1>1, <1>13, <2>2 DEF etimer_adjust, update_time
<1>14. ASSUME NEW q \in Proc, Exited(q)
       PROVE  TypeOK'
  <2>1. timerlist' \in Timer \cup {NULL} /\ next' \in [Timer -> Timer \cup {NULL}]
    BY <1>14, ListPurged
  <2> QED
    BY <1>1, <1>14, <2>1 DEF Exited
<1>15. ASSUME NEW q \in Proc, Started(q)
       PROVE  TypeOK'
  BY <1>1, <1>15 DEF Started
<1>16. CASE PostOther
  <2>1. [p |-> NULL, et |-> NULL] \in Event
    BY DEF Event
  <2>2. queue' \in Seq(Event) /\ Len(queue') <= NumEvents
    BY <1>1, <1>16, <2>1, NumEventsAssumption DEF PostOther
  <2> QED
    BY <1>1, <1>16, <2>2 DEF PostOther
<1>17. CASE Deliver
  <2>1. queue' \in Seq(Event) /\ Len(queue') <= NumEvents
    BY <1>1, <1>17, NumEventsAssumption DEF Deliver
  <2> QED
    BY <1>1, <1>17, <2>1 DEF Deliver
<1>18. CASE UNCHANGED vars
  BY <1>1, <1>18 DEF vars
<1> QED
  BY <1>2, <1>3, <1>4, <1>5, <1>6, <1>7, <1>8, <1>9, <1>10, <1>11, <1>12, <1>13, <1>14, <1>15,
     <1>16, <1>17, <1>18 DEF Next, Running, Scanning, Calls, Processes, SetBy

\* an action that leaves the list, its owners and their lives alone, and does not scan
LEMMA SoundSame ==
  ASSUME SoundInv, UNCHANGED list, UNCHANGED alive,
         pc' = "scan" => pc = "scan" /\ UNCHANGED <<t, u>>
  PROVE  Sound' /\ ListSound'
<1>1. Listed' = Listed /\ Sound' /\ p' = p /\ alive' = alive /\ next' = next /\ timerlist' = timerlist
  BY ListSame DEF SoundInv
<1>2. OwnersRun'
  BY <1>1 DEF SoundInv, ListSound, OwnersRun
<1>3. CursorsListed'
  BY <1>1 DEF SoundInv, ListSound, CursorsListed
<1> QED
  BY <1>1, <1>2, <1>3 DEF ListSound

\* the cursors move on
LEMMA SoundScan ==
  ASSUME SoundInv, pc = "scan", t # NULL, t' = next[t], u' = t, UNCHANGED list, UNCHANGED alive
  PROVE  Sound' /\ ListSound'
<1>1. Listed' = Listed /\ Sound' /\ p' = p /\ alive' = alive /\ next' = next /\ timerlist' = timerlist
  BY ListSame DEF SoundInv
<1>2. OwnersRun'
  BY <1>1 DEF SoundInv, ListSound, OwnersRun
<1>3. t \in Listed
  BY DEF SoundInv, ListSound, CursorsListed
<1>4. next[t] \in Listed \cup {NULL} /\ t \in Timer
  BY <1>3, ListedIs DEF SoundInv
<1>5. CursorsListed'
  BY <1>1, <1>3, <1>4, NullIs DEF CursorsListed
<1> QED
  BY <1>1, <1>2, <1>5 DEF ListSound

LEMMA SoundKept ==
  ASSUME SoundInv, [Next]_vars
  PROVE  SoundInv'
<1>1. TypeOK /\ OwnersRun /\ TypeOK'
  BY TypesKept DEF SoundInv, ListSound
<1>2. CASE Tick \/ Poll \/ ScanEnds \/ PostOther \/ Deliver \/ Update \/ UNCHANGED vars
  BY <1>1, <1>2, SoundSame DEF Tick, Poll, ScanEnds, PostOther, Deliver, Update, vars, SoundInv
<1>3. CASE Store
  BY <1>1, <1>3, SoundSame DEF Store, SoundInv, TypeOK
<1>4. CASE Again
  <2>1. Listed' = Listed /\ Sound' /\ p' = p /\ alive' = alive /\ next' = next /\ timerlist' = timerlist
    BY <1>4, ListSame DEF SoundInv, Again
  <2>2. OwnersRun'
    BY <1>1, <2>1 DEF OwnersRun
  <2>3. CursorsListed'
    BY <1>1, <1>4, <2>1, ListedIs DEF CursorsListed, Again
  <2> QED
    BY <1>1, <2>1, <2>2, <2>3 DEF SoundInv, ListSound
<1>5. CASE ScanPasses \/ ScanBlocked
  BY <1>1, <1>5, SoundScan DEF ScanPasses, ScanBlocked, SoundInv
<1>6. CASE ScanPosts
  <2>1. t \in Listed /\ Listed' = Listed \ {t} /\ Sound'
    BY <1>6, ListPosted
  <2>2. p' = [p EXCEPT ![t] = NULL] /\ alive' = alive /\ pc' = "update"
    BY <1>6 DEF ScanPosts, update_time
  <2>3. \A et \in Listed' : p'[et] = p[et]
    BY <1>1, <2>1, <2>2, ListedIs DEF TypeOK
  <2>4. OwnersRun'
    BY <1>1, <2>1, <2>2, <2>3 DEF OwnersRun
  <2> QED
    BY <1>1, <2>1, <2>2, <2>4 DEF SoundInv, ListSound, CursorsListed
<1>7. ASSUME NEW et \in Timer, NEW q \in User[et], SetBy(et, q)
      PROVE  SoundInv'
  <2>1. q \in alive /\ q \in Proc /\ add_timer(et, q)
    BY <1>1, <1>7, SetIs
  <2>2. Listed' = Listed \cup {et} /\ Sound'
    BY <2>1, ListAdded
  <2>3. p' = [p EXCEPT ![et] = q] /\ alive' = alive /\ pc' = "update"
    BY <2>1 DEF add_timer, update_time
  <2>4. \A o \in Listed' : p'[o] = IF o = et THEN q ELSE p[o]
    BY <1>1, <2>2, <2>3, ListedIs DEF TypeOK
  <2>5. OwnersRun'
    BY <1>1, <2>1, <2>2, <2>3, <2>4 DEF OwnersRun
  <2> QED
    BY <1>1, <2>2, <2>3, <2>5 DEF SoundInv, ListSound, CursorsListed
<1>8. ASSUME NEW et \in Timer, etimer_stop(et)
      PROVE  SoundInv'
  <2>1. Listed' = Listed \ {et} /\ Sound'
    BY <1>8, ListStopped
  <2>2. p' = [p EXCEPT ![et] = NULL] /\ alive' = alive /\ pc' # "scan"
    BY <1>8 DEF etimer_stop, update_time
  <2>3. \A o \in Listed' : p'[o] = p[o]
    BY <1>1, <2>1, <2>2, ListedIs DEF TypeOK
  <2>4. OwnersRun'
    BY <1>1, <2>1, <2>2, <2>3 DEF OwnersRun
  <2> QED
    BY <1>1, <2>1, <2>2, <2>4 DEF SoundInv, ListSound, CursorsListed
<1>9. ASSUME NEW et \in Timer, NEW d \in Diff, etimer_adjust(et, d)
      PROVE  SoundInv'
  BY <1>1, <1>9, SoundSame DEF etimer_adjust, update_time, SoundInv
<1>10. ASSUME NEW q \in Proc, Exited(q)
       PROVE  SoundInv'
  <2>1. Listed' = {x \in Listed : p[x] # q} /\ Sound'
    BY <1>10, ListPurged
  <2>2. p' = p /\ alive' = alive \ {q} /\ pc' = "idle"
    BY <1>10 DEF Exited
  <2>3. OwnersRun'
    BY <1>1, <2>1, <2>2 DEF OwnersRun
  <2> QED
    BY <1>1, <2>1, <2>2, <2>3 DEF SoundInv, ListSound, CursorsListed
<1>11. ASSUME NEW q \in Proc, Started(q)
       PROVE  SoundInv'
  <2>1. Listed' = Listed /\ Sound'
    BY <1>11, ListSame DEF SoundInv, Started
  <2>2. p' = p /\ alive' = alive \cup {q} /\ pc' = "idle"
    BY <1>11 DEF Started
  <2>3. OwnersRun'
    BY <1>1, <2>1, <2>2 DEF OwnersRun
  <2> QED
    BY <1>1, <2>1, <2>2, <2>3 DEF SoundInv, ListSound, CursorsListed
<1> QED
  BY <1>2, <1>3, <1>4, <1>5, <1>6, <1>7, <1>8, <1>9, <1>10, <1>11
     DEF Next, Running, Scanning, Calls, Processes, SetBy

LEMMA SoundAlways == Spec => []SoundInv
<1>1. Init => SoundInv
  BY InitIsSound
<1>2. SoundInv /\ [Next]_vars => SoundInv'
  BY SoundKept
<1> QED
  BY <1>1, <1>2, PTL DEF Spec

(* The variables stay within their types.                                  *)
THEOREM EtimerTypeCorrect == Spec => []TypeOK
<1>1. SoundInv => TypeOK
  BY DEF SoundInv
<1> QED
  BY <1>1, SoundAlways, PTL

(* The list that the scan follows and the purge rewrites stays sound: its   *)
(* timers belong to processes that run, and the cursors t and u of the     *)
(* scan stay on it whatever the program does while the scan is suspended.  *)
THEOREM ListStaysSound == Spec => []ListSound
<1>1. SoundInv => ListSound
  BY DEF SoundInv
<1> QED
  BY <1>1, SoundAlways, PTL

(***************************************************************************)
(* Time.                                                                   *)
(***************************************************************************)
(* No interval, also with an adjustment, is half a turn of the clock, and  *)
(* etimer_adjust moves no start into the future.  Without the one CLOCK_LT *)
(* takes an expiry for past, without the other timer_expired a start.      *)
Spans ==
  /\ "adjust_ahead" \notin Liberties
  /\ \A i \in Interval : 2 * i < ClockSize /\ \A d \in Diff : 2 * (i + d) < ClockSize

(* The inductive invariant.  What next_expiration stands for (NextKnown),  *)
(* or will stand for once it is stored (FreshKnown), is at or before the   *)
(* expiry of every timer that is not expired, by less than its interval:   *)
(* so the two are never half a turn apart.  Watched says it of the         *)
(* comparison the tick makes, and of timers nobody polls for.              *)
\* n is not after the expiry of a timer, and not longer before it than the interval
Ahead(s, i, n) == Minus(Plus(s, i), n) <= i
Covered(s, i, c, n) == Expired(s, i, c) \/ Ahead(s, i, n)

Settings ==
  \A et \in Timer : interval[et] \in Interval /\ Minus(clock_time, start[et]) <= now + Shortest
NextKnown ==
  pc \in {"idle", "again", "scan"} =>
    \A et \in Listed : Covered(start[et], interval[et], clock_time, next_expiration)
FreshKnown ==
  pc = "store" => \A et \in Listed : Covered(start[et], interval[et], clock_time, fresh)
Watched ==
  \A et \in Listed : \/ poll \/ ToBeScanned(et)
                     \/ ~timer_expired(et) /\ ~CLOCK_LT(Expiry(et), next_expiration)
TimeInv == SoundInv /\ Settings /\ NextKnown /\ FreshKnown /\ Watched

LEMMA CoveredLater ==
  ASSUME NEW s \in Clock, NEW i \in Clock, NEW c \in Clock, NEW n \in Clock,
         Minus(c, s) < ClockSize - 2, 1 \in Clock, Covered(s, i, c, n)
  PROVE  Covered(s, i, Plus(c, 1), n)
<1>1. Plus(c, 1) \in Clock /\ Minus(c, s) \in Clock
  BY PlusIs, MinusIs
<1>0. Minus(c, s) < ClockSize - 1
  BY <1>1, ClockAssumption DEF Clock
<1>2. Minus(Plus(c, 1), s) = Minus(c, s) + 1
  BY <1>0, OneMore
<1>5. Minus(Plus(c, 1), s) < ClockSize - 1
  BY <1>1, <1>2, ClockAssumption DEF Clock
<1>3. (Expired(s, i, c) <=> i <= Minus(c, s)) /\ (Expired(s, i, Plus(c, 1)) <=> i <= Minus(Plus(c, 1), s))
  BY <1>0, <1>1, <1>5, ToGo
<1> QED
  BY <1>1, <1>2, <1>3 DEF Covered, Clock

LEMMA JustExpired ==
  ASSUME NEW s \in Clock, NEW i \in Clock, NEW c \in Clock,
         Minus(c, s) < ClockSize - 2, 1 \in Clock, ~Expired(s, i, c), Expired(s, i, Plus(c, 1))
  PROVE  Plus(s, i) = Plus(c, 1)
<1>1. Plus(c, 1) \in Clock /\ Minus(c, s) \in Clock
  BY PlusIs, MinusIs
<1>0. Minus(c, s) < ClockSize - 1
  BY <1>1, ClockAssumption DEF Clock
<1>2. Minus(Plus(c, 1), s) = Minus(c, s) + 1
  BY <1>0, OneMore
<1>5. Minus(Plus(c, 1), s) < ClockSize - 1
  BY <1>1, <1>2, ClockAssumption DEF Clock
<1>3. (Expired(s, i, c) <=> i <= Minus(c, s)) /\ (Expired(s, i, Plus(c, 1)) <=> i <= Minus(Plus(c, 1), s))
  BY <1>0, <1>1, <1>5, ToGo
<1>4. i = Minus(Plus(c, 1), s)
  BY <1>1, <1>2, <1>3 DEF Clock
<1> QED
  BY <1>1, <1>4, <1>5, ToGo

LEMMA NotAfter ==
  ASSUME NEW s \in Clock, NEW i \in Clock, NEW n \in Clock, 2 * i < ClockSize, Ahead(s, i, n)
  PROVE  ~CLOCK_LT(Plus(s, i), n)
<1>1. Plus(s, i) \in Clock /\ Minus(Plus(s, i), n) \in Clock
  BY PlusIs, MinusIs
<1> QED
  BY <1>1, ClockAssumption DEF Ahead, CLOCK_LT, Clock

LEMMA FreshCovers ==
  ASSUME NEW s \in Clock, NEW i \in Clock, NEW c \in Clock, NEW m \in Clock,
         m <= Minus(Plus(s, i), c), Minus(c, s) < ClockSize - 1
  PROVE  Covered(s, i, c, Plus(c, m))
<1>1. Plus(s, i) \in Clock /\ Minus(c, s) \in Clock
  BY PlusIs, MinusIs
<1>2. Minus(Plus(s, i), Plus(c, m)) = Minus(Plus(s, i), c) - m
  BY <1>1, Between
<1>3. ~Expired(s, i, c) => Minus(Plus(s, i), c) = i - Minus(c, s)
  BY ToGo
<1> QED
  BY <1>1, <1>2, <1>3 DEF Covered, Ahead, Clock

LEMMA AdjustCovers ==
  ASSUME NEW s \in Clock, NEW i \in Clock, NEW c \in Clock, NEW n \in Clock, NEW d \in Clock,
         Minus(c, s) < ClockSize - 1,
         d <= Minus(c, s), 2 * (i + d) < ClockSize, ~Expired(s, i, c), Ahead(s, i, n)
  PROVE  ~Expired(Plus(s, d), i, c) /\ ~CLOCK_LT(Plus(Plus(s, d), i), n)
<1>1. Plus(s, d) \in Clock /\ Plus(s, i) \in Clock /\ Minus(c, s) \in Clock /\ Minus(Plus(s, i), n) \in Clock
  BY PlusIs, MinusIs
<1>2. Minus(c, Plus(s, d)) = Minus(c, s) - d
  BY Moved
<1>11. Minus(c, Plus(s, d)) < ClockSize - 1
  BY <1>1, <1>2, ClockAssumption DEF Clock
<1>3. (Expired(s, i, c) <=> i <= Minus(c, s)) /\ (Expired(Plus(s, d), i, c) <=> i <= Minus(c, Plus(s, d)))
  BY <1>1, <1>11, ToGo
<1>4. ~Expired(Plus(s, d), i, c)
  BY <1>1, <1>2, <1>3 DEF Clock
<1>5. Minus(Plus(s, i), n) + d < ClockSize
  BY <1>1, ClockAssumption DEF Ahead, Clock
<1>6. Minus(Plus(Plus(s, i), d), n) = Minus(Plus(s, i), n) + d
  BY <1>1, <1>5, Moved
<1>7. Plus(Plus(s, d), i) = Plus(Plus(s, i), d)
  BY PlusTwice
<1>8. 2 * Minus(Plus(Plus(s, d), i), n) < ClockSize
  BY <1>1, <1>6, <1>7, ClockAssumption DEF Ahead, Clock
<1>9. Plus(Plus(s, d), i) \in Clock
  BY <1>1, PlusIs
<1>10. Minus(Plus(Plus(s, d), i), n) \in Clock
  BY <1>9, MinusIs
<1> QED
  BY <1>4, <1>8, <1>10, ClockAssumption DEF CLOCK_LT, Clock

LEMMA TickIs ==
  ASSUME TypeOK, Tick
  PROVE  clock_time' = Plus(clock_time, 1) /\ 1 \in Clock /\ now < MaxTime /\ now' = now + 1
<1>1. now < MaxTime /\ now' = now + 1 /\ now \in Nat
  BY DEF Tick, TypeOK
<1>2. now \in Clock /\ now + 1 \in Clock /\ 1 \in Clock /\ Boot \in Clock
  BY <1>1, ClockAssumption DEF Clock
<1>3. Plus(Boot, now) \in Clock
  BY <1>2, PlusIs
<1>4. /\ Plus(Boot, now) = IF Boot + now < ClockSize THEN Boot + now ELSE Boot + now - ClockSize
      /\ Plus(Boot, now + 1) = IF Boot + (now + 1) < ClockSize THEN Boot + (now + 1) ELSE Boot + (now + 1) - ClockSize
      /\ Plus(Plus(Boot, now), 1) = IF Plus(Boot, now) + 1 < ClockSize THEN Plus(Boot, now) + 1
                                                                     ELSE Plus(Boot, now) + 1 - ClockSize
  BY <1>2, <1>3, PlusIs
<1>5. Plus(Boot, now + 1) = Plus(Plus(Boot, now), 1)
  BY <1>2, <1>3, <1>4, ClockAssumption DEF Clock
<1> QED
  BY <1>1, <1>2, <1>5 DEF clock_time

LEMMA TimerIs ==
  ASSUME TypeOK, NEW et \in Timer
  PROVE  /\ start[et] \in Clock /\ interval[et] \in Clock /\ Expiry(et) \in Clock
         /\ Minus(clock_time, start[et]) \in Clock /\ clock_time \in Clock
<1>1. start[et] \in Clock /\ interval[et] \in Clock
  BY DEF TypeOK
<1> QED
  BY <1>1, ClockIs, PlusIs, MinusIs DEF Expiry

\* no timer's start is a whole turn ago, nor will be at the next tick
LEMMA NoTurn ==
  ASSUME Spans, TypeOK, Settings, NEW et \in Timer
  PROVE  /\ Minus(clock_time, start[et]) < ClockSize - 1
         /\ now < MaxTime => Minus(clock_time, start[et]) < ClockSize - 2
<1>1. Shortest \in Clock /\ 2 * Shortest < ClockSize
  BY ShortestIs, ClockAssumption DEF Spans
<1>2. Minus(clock_time, start[et]) <= now + Shortest /\ Minus(clock_time, start[et]) \in Clock
  BY TimerIs DEF Settings
<1> QED
  BY <1>1, <1>2, ClockAssumption DEF Clock, TypeOK

LEMMA AdjustIs ==
  ASSUME Spans, TypeOK, NEW et \in Timer, NEW d \in Diff, etimer_adjust(et, d)
  PROVE  /\ d \in Clock /\ d <= Minus(clock_time, start[et])
         /\ Minus(clock_time, Plus(start[et], d)) = Minus(clock_time, start[et]) - d
<1>1. d \in Clock /\ start[et] \in Clock /\ clock_time \in Clock /\ Minus(clock_time, start[et]) \in Clock
  BY TimerIs, ClockAssumption
<1>2. ~CLOCK_LT(clock_time, Plus(start[et], d))
  BY DEF etimer_adjust, Spans
<1>3. Plus(start[et], d) \in Clock
  BY <1>1, PlusIs
<1>4. Minus(clock_time, Plus(start[et], d)) \in Clock
  BY <1>1, <1>3, MinusIs
<1>5. 2 * Minus(clock_time, Plus(start[et], d)) < ClockSize
  BY <1>2, <1>4, ClockAssumption DEF CLOCK_LT, Clock
<1>6. Minus(clock_time, Plus(start[et], d)) =
        IF d <= Minus(clock_time, start[et]) THEN Minus(clock_time, start[et]) - d
                                             ELSE Minus(clock_time, start[et]) - d + ClockSize
  BY <1>1, Moved
<1>7. 2 * d < ClockSize
  <2>1. PICK i \in Interval : TRUE
    BY ClockAssumption
  <2>2. i \in Clock /\ 2 * (i + d) < ClockSize
    BY <2>1, ClockAssumption DEF Spans
  <2> QED
    BY <1>1, <2>2, ClockAssumption DEF Clock
<1>8. d <= Minus(clock_time, start[et])
  BY <1>1, <1>5, <1>6, <1>7, ClockAssumption DEF Clock
<1> QED
  BY <1>1, <1>6, <1>8

LEMMA InitIsTimely == Spans /\ Init => TimeInv
<1> SUFFICES ASSUME Spans, Init
             PROVE  TimeInv
  OBVIOUS
<1>1. SoundInv
  BY InitIsSound
<1>2. Listed = {}
  BY ReachNull DEF Init, Listed, Visits
<1>3. Shortest \in Interval /\ Shortest \in Clock /\ Boot \in Clock /\ 0 \in Clock
  BY ShortestIs, ClockAssumption, ZeroIs
<1>4. clock_time = Boot /\ now = 0
  <2>1. Plus(Boot, 0) = Boot
    <3>1. Plus(Boot, 0) = IF Boot + 0 < ClockSize THEN Boot + 0 ELSE Boot + 0 - ClockSize
      BY <1>3, PlusIs
    <3> QED
      BY <1>3, <3>1, ClockAssumption DEF Clock
  <2> QED
    BY <2>1 DEF Init, clock_time
<1>5. Minus(Boot, Minus(Boot, Shortest)) = Shortest
  <2>1. Minus(Boot, Shortest) \in Clock
    BY <1>3, MinusIs
  <2>2. /\ Minus(Boot, Shortest) = IF Boot < Shortest THEN Boot - Shortest + ClockSize ELSE Boot - Shortest
        /\ Minus(Boot, Minus(Boot, Shortest)) = IF Boot < Minus(Boot, Shortest)
                                                THEN Boot - Minus(Boot, Shortest) + ClockSize
                                                ELSE Boot - Minus(Boot, Shortest)
    BY <1>3, <2>1, MinusIs
  <2> QED
    BY <1>3, <2>1, <2>2, ClockAssumption DEF Clock
<1>6. Settings
  <2>1. ASSUME NEW et \in Timer
        PROVE  interval[et] = Shortest /\ start[et] = Minus(Boot, Shortest)
    BY DEF Init
  <2> QED
    BY <1>3, <1>4, <1>5, <2>1 DEF Settings, Clock
<1>7. NextKnown /\ FreshKnown /\ Watched
  BY <1>2 DEF NextKnown, FreshKnown, Watched
<1> QED
  BY <1>1, <1>6, <1>7 DEF TimeInv

LEMMA SettingsSame ==
  ASSUME Settings, UNCHANGED <<now, start, interval>>
  PROVE  Settings' /\ clock_time' = clock_time
BY DEF Settings, clock_time

LEMMA SetSettings ==
  ASSUME Spans, TypeOK, Settings, NEW et \in Timer, NEW q \in User[et], SetBy(et, q)
  PROVE  Settings' /\ clock_time' = clock_time
<1>1. /\ now' = now /\ clock_time' = clock_time
      /\ \A o \in Timer \ {et} : start'[o] = start[o] /\ interval'[o] = interval[o]
      /\ interval'[et] = interval[et] \/ interval'[et] \in Interval
      /\ start'[et] \in {clock_time, Restarted(et)}
  BY SetIs DEF add_timer, clock_time
<1>2. /\ start[et] \in Clock /\ interval[et] \in Clock /\ Expiry(et) \in Clock /\ clock_time \in Clock
      /\ Minus(clock_time, start[et]) \in Clock /\ now \in Nat /\ Shortest \in Clock
  BY TimerIs, ShortestIs, ClockAssumption DEF TypeOK
<1>3. Minus(clock_time, start[et]) <= now + Shortest /\ interval[et] \in Interval
  BY DEF Settings
<1>4. Minus(clock_time, start'[et]) <= now + Shortest
  <2>1. CASE start'[et] = clock_time
    <3>1. Minus(clock_time, clock_time) = 0
      BY <1>2, MinusSelf
    <3> QED
      BY <1>2, <2>1, <3>1 DEF Clock
  <2>2. CASE start'[et] = Restarted(et) /\ timer_expired(et)
    <3>1. Minus(clock_time, Expiry(et)) = Minus(clock_time, start[et]) - interval[et]
      BY <1>2, <2>2, ToGo, NoTurn DEF timer_expired, Expiry
    <3>2. start'[et] = Expiry(et)
      BY <2>2 DEF Restarted
    <3> QED
      BY <1>2, <1>3, <3>1, <3>2 DEF Clock
  <2>3. CASE start'[et] = Restarted(et) /\ ~timer_expired(et)
    <3>1. start'[et] = start[et]
      BY <2>3 DEF Restarted
    <3> QED
      BY <1>3, <3>1
  <2> QED
    BY <1>1, <2>1, <2>2, <2>3
<1> QED
  BY <1>1, <1>3, <1>4 DEF Settings

LEMMA AdjustSettings ==
  ASSUME Spans, TypeOK, Settings, NEW et \in Timer, NEW d \in Diff, etimer_adjust(et, d)
  PROVE  Settings' /\ clock_time' = clock_time
<1>1. /\ now' = now /\ interval' = interval /\ clock_time' = clock_time
      /\ start' = [start EXCEPT ![et] = Plus(start[et], d)]
  BY DEF etimer_adjust, clock_time
<1>2. /\ d \in Clock
      /\ Minus(clock_time, Plus(start[et], d)) = Minus(clock_time, start[et]) - d
  BY AdjustIs
<1>3. Minus(clock_time, start[et]) \in Clock /\ now \in Nat /\ Shortest \in Clock
  BY TimerIs, ShortestIs, ClockAssumption DEF TypeOK
<1>4. \A o \in Timer : start'[o] = IF o = et THEN Plus(start[et], d) ELSE start[o]
  BY <1>1 DEF TypeOK
<1>5. Minus(clock_time, start[et]) <= now + Shortest
  BY DEF Settings
<1>6. Minus(clock_time, Plus(start[et], d)) <= now + Shortest
  BY <1>2, <1>3, <1>5 DEF Clock
<1> QED
  BY <1>1, <1>4, <1>6 DEF Settings

LEMMA TickSettings ==
  ASSUME Spans, TypeOK, Settings, Tick
  PROVE  Settings'
<1>1. /\ clock_time' = Plus(clock_time, 1) /\ 1 \in Clock /\ now < MaxTime /\ now' = now + 1
      /\ UNCHANGED <<start, interval>>
  BY TickIs DEF Tick
<1>2. ASSUME NEW et \in Timer
      PROVE  Minus(clock_time', start[et]) <= now' + Shortest
  <2>1. Minus(clock_time, start[et]) < ClockSize - 1
    BY <1>1, NoTurn
  <2>2. start[et] \in Clock /\ clock_time \in Clock /\ Minus(clock_time, start[et]) \in Clock
    BY TimerIs
  <2>3. Minus(Plus(clock_time, 1), start[et]) = Minus(clock_time, start[et]) + 1
    BY <1>1, <2>1, <2>2, OneMore
  <2>4. Minus(clock_time, start[et]) <= now + Shortest /\ now \in Nat /\ Shortest \in Clock
    BY ShortestIs, ClockAssumption DEF Settings, TypeOK
  <2> QED
    BY <1>1, <2>2, <2>3, <2>4 DEF Clock
<1> QED
  BY <1>1, <1>2 DEF Settings

(* A step that leaves the clock and the settings alone, takes no timer to  *)
(* the list and does not move next_expiration.                             *)
LEMMA NextSame ==
  ASSUME NextKnown, UNCHANGED <<now, start, interval, next_expiration>>, Listed' \subseteq Listed,
         pc' \in {"idle", "again", "scan"} => pc \in {"idle", "again", "scan"}
  PROVE  NextKnown'
<1>1. clock_time' = clock_time
  BY DEF clock_time
<1> QED
  BY <1>1 DEF NextKnown

LEMMA WatchedSame ==
  ASSUME Watched, UNCHANGED <<now, start, interval, next_expiration>>, Listed' \subseteq Listed,
         poll => poll', \A et \in Listed' : ToBeScanned(et) => ToBeScanned(et)'
  PROVE  Watched'
<1>1. \A et : timer_expired(et)' = timer_expired(et) /\ Expiry(et)' = Expiry(et)
  BY DEF timer_expired, clock_time, Expiry
<1> QED
  BY <1>1 DEF Watched

LEMMA TickTimely ==
  ASSUME Spans, TimeInv, Tick
  PROVE  NextKnown' /\ FreshKnown' /\ Watched'
<1>1. /\ clock_time' = Plus(clock_time, 1) /\ 1 \in Clock /\ now < MaxTime
      /\ TypeOK /\ Settings /\ NextKnown /\ FreshKnown /\ Watched
  BY TickIs DEF TimeInv, SoundInv
<1>2. /\ UNCHANGED <<timerlist, next, start, interval, next_expiration, fresh, pc, ret, t>>
      /\ Listed' = Listed /\ \A c : Visits(c)' = Visits(c)
  BY ListSame DEF Tick
<1>3. poll' = (poll \/ (timerlist # NULL /\ ~CLOCK_LT(clock_time', next_expiration)))
  BY DEF Tick
<1>4. next_expiration \in Clock /\ fresh \in Clock
  BY <1>1 DEF TypeOK
<1>5. ASSUME NEW et \in Listed
      PROVE  /\ start[et] \in Clock /\ interval[et] \in Clock /\ clock_time \in Clock
             /\ Minus(clock_time, start[et]) < ClockSize - 2
  BY <1>1, ListedIs, TimerIs, NoTurn
<1>6. ASSUME NEW et \in Listed, NEW n \in Clock, Covered(start[et], interval[et], clock_time, n)
      PROVE  Covered(start'[et], interval'[et], clock_time', n)
  BY <1>1, <1>2, <1>5, <1>6, CoveredLater
<1>7. NextKnown'
  BY <1>1, <1>2, <1>4, <1>6 DEF NextKnown
<1>8. FreshKnown'
  BY <1>1, <1>2, <1>4, <1>6 DEF FreshKnown
<1>9. ASSUME NEW et \in Listed, ~(poll \/ ToBeScanned(et)), Expired(start[et], interval[et], Plus(clock_time, 1))
      PROVE  poll'
  <2>1. ~Expired(start[et], interval[et], clock_time) /\ ~CLOCK_LT(Expiry(et), next_expiration)
    BY <1>1, <1>9 DEF Watched, timer_expired
  <2>2. Expiry(et) = Plus(clock_time, 1)
    BY <1>1, <1>5, <1>9, <2>1, JustExpired DEF Expiry
  <2>3. timerlist # NULL
    BY <1>9, ReachNull DEF Listed, Visits
  <2> QED
    BY <1>1, <1>3, <2>1, <2>2, <2>3
<1>10. \A et \in Listed : /\ ToBeScanned(et)' = ToBeScanned(et) /\ Expiry(et)' = Expiry(et)
                          /\ timer_expired(et)' = Expired(start[et], interval[et], Plus(clock_time, 1))
  BY <1>1, <1>2 DEF ToBeScanned, Expiry, timer_expired
<1>11. poll => poll'
  BY <1>3
<1>12. ASSUME NEW et \in Listed
       PROVE  \/ poll' \/ ToBeScanned(et)'
              \/ ~timer_expired(et)' /\ ~CLOCK_LT(Expiry(et)', next_expiration')
  BY <1>1, <1>2, <1>9, <1>10, <1>11 DEF Watched
<1> QED
  BY <1>2, <1>7, <1>8, <1>12 DEF Watched

LEMMA UpdateTimely ==
  ASSUME Spans, TimeInv, Update
  PROVE  NextKnown' /\ FreshKnown' /\ Watched'
<1>1. TypeOK /\ Settings /\ Watched /\ fresh' = Compute /\ pc = "update" /\ pc' = "store"
  BY DEF TimeInv, SoundInv, Update
<1>2. /\ UNCHANGED <<now, start, interval, next_expiration, poll, ret, t>>
      /\ Listed' = Listed /\ clock_time' = clock_time
  BY ListSame DEF Update, clock_time
<1>3. ASSUME NEW et \in Listed
      PROVE  Covered(start[et], interval[et], clock_time, Compute)
  <2>1. timerlist # NULL
    BY <1>3, ReachNull DEF Listed, Visits
  <2>2. PICK m \in Clock : Compute = Plus(clock_time, m) /\ m <= Minus(Expiry(et), clock_time)
    BY <1>1, <2>1, ComputeIs
  <2>3. /\ start[et] \in Clock /\ interval[et] \in Clock /\ clock_time \in Clock
        /\ Minus(clock_time, start[et]) < ClockSize - 1
    BY <1>1, ListedIs, TimerIs, NoTurn
  <2> QED
    BY <2>2, <2>3, FreshCovers DEF Expiry
<1>4. FreshKnown'
  BY <1>1, <1>2, <1>3 DEF FreshKnown
<1>5. NextKnown'
  BY <1>1 DEF NextKnown
<1>6. \A et \in Listed : ToBeScanned(et) => ToBeScanned(et)'
  BY <1>1, <1>2 DEF ToBeScanned
<1> QED
  BY <1>1, <1>2, <1>4, <1>5, <1>6, WatchedSame

LEMMA StoreTimely ==
  ASSUME Spans, TimeInv, Store
  PROVE  NextKnown' /\ FreshKnown' /\ Watched'
<1>1. /\ TypeOK /\ Watched /\ FreshKnown /\ Settings
      /\ pc = "store" /\ pc' = ret /\ ret \in {"idle", "again"} /\ next_expiration' = fresh
  BY DEF TimeInv, SoundInv, Store, TypeOK
<1>2. /\ UNCHANGED <<now, start, interval, poll>> /\ Listed' = Listed /\ clock_time' = clock_time
  BY ListSame DEF Store, clock_time
<1>3. \A et \in Listed : Covered(start[et], interval[et], clock_time, fresh)
  BY <1>1 DEF FreshKnown
<1>4. NextKnown'
  BY <1>1, <1>2, <1>3 DEF NextKnown
<1>5. FreshKnown'
  BY <1>1 DEF FreshKnown
<1>6. ASSUME NEW et \in Listed, ~Expired(start[et], interval[et], clock_time)
      PROVE  ~CLOCK_LT(Expiry(et), fresh)
  <2>1. start[et] \in Clock /\ interval[et] \in Clock /\ fresh \in Clock /\ 2 * interval[et] < ClockSize
    BY <1>1, ListedIs, TimerIs DEF TypeOK, Settings, Spans
  <2>2. Ahead(start[et], interval[et], fresh)
    BY <1>3, <1>6 DEF Covered
  <2> QED
    BY <2>1, <2>2, NotAfter DEF Expiry
<1>7. ASSUME NEW et \in Listed
      PROVE  \/ poll' \/ ToBeScanned(et)'
             \/ ~timer_expired(et)' /\ ~CLOCK_LT(Expiry(et)', next_expiration')
  <2>1. poll \/ ToBeScanned(et) \/ ~timer_expired(et)
    BY <1>1 DEF Watched
  <2>2. CASE poll
    BY <1>2, <2>2
  <2>3. CASE ToBeScanned(et)
    BY <1>1, <2>3 DEF ToBeScanned
  <2>4. CASE ~timer_expired(et)
    <3>1. timer_expired(et)' = timer_expired(et) /\ Expiry(et)' = Expiry(et)
      BY <1>2 DEF timer_expired, Expiry
    <3> QED
      BY <1>1, <1>6, <2>4, <3>1 DEF timer_expired
  <2> QED
    BY <2>1, <2>2, <2>3, <2>4
<1>8. Watched'
  BY <1>2, <1>7 DEF Watched
<1> QED
  BY <1>4, <1>5, <1>8

LEMMA SetTimely ==
  ASSUME Spans, TimeInv, NEW et \in Timer, NEW q \in User[et], SetBy(et, q)
  PROVE  NextKnown' /\ FreshKnown' /\ Watched'
<1>1. poll' = TRUE /\ pc' = "update"
  BY SetIs DEF TimeInv, SoundInv, add_timer, update_time
<1> QED
  BY <1>1 DEF NextKnown, FreshKnown, Watched

LEMMA AdjustTimely ==
  ASSUME Spans, TimeInv, NEW et \in Timer, NEW d \in Diff, etimer_adjust(et, d)
  PROVE  NextKnown' /\ FreshKnown' /\ Watched'
<1>1. /\ TypeOK /\ Watched /\ NextKnown /\ Settings /\ pc = "idle" /\ pc' = "update"
      /\ start' = [start EXCEPT ![et] = Plus(start[et], d)]
  BY DEF TimeInv, SoundInv, etimer_adjust, update_time
<1>2. /\ UNCHANGED <<now, interval, poll, next_expiration>> /\ Listed' = Listed /\ clock_time' = clock_time
  BY ListSame DEF etimer_adjust, clock_time
<1>3. d \in Clock /\ d <= Minus(clock_time, start[et])
  BY <1>1, AdjustIs
<1>4. ASSUME NEW o \in Listed, ~poll
      PROVE  ~timer_expired(o)' /\ ~CLOCK_LT(Expiry(o)', next_expiration')
  <2>1. ~timer_expired(o) /\ ~CLOCK_LT(Expiry(o), next_expiration)
    BY <1>1, <1>4 DEF Watched, ToBeScanned
  <2>2. o \in Timer
    BY <1>1, ListedIs
  <2>3. CASE o # et
    <3>1. timer_expired(o)' = timer_expired(o) /\ Expiry(o)' = Expiry(o)
      BY <1>1, <1>2, <2>2, <2>3 DEF timer_expired, Expiry, TypeOK
    <3> QED
      BY <1>2, <2>1, <3>1
  <2>4. CASE o = et
    <3>1. start[et] \in Clock /\ interval[et] \in Clock /\ clock_time \in Clock /\ next_expiration \in Clock
      BY <1>1, TimerIs DEF TypeOK
    <3>2. Ahead(start[et], interval[et], next_expiration) /\ ~Expired(start[et], interval[et], clock_time)
      BY <1>1, <1>4, <2>1, <2>4 DEF NextKnown, Covered, timer_expired
    <3>3. 2 * (interval[et] + d) < ClockSize
      BY <1>1 DEF Settings, Spans
    <3>4. /\ ~Expired(Plus(start[et], d), interval[et], clock_time)
          /\ ~CLOCK_LT(Plus(Plus(start[et], d), interval[et]), next_expiration)
      BY <1>1, <1>3, <3>1, <3>2, <3>3, AdjustCovers, NoTurn
    <3>5. start'[et] = Plus(start[et], d)
      BY <1>1 DEF TypeOK
    <3> QED
      BY <1>2, <2>4, <3>4, <3>5 DEF timer_expired, Expiry
  <2> QED
    BY <2>3, <2>4
<1>5. Watched'
  BY <1>2, <1>4 DEF Watched
<1>6. NextKnown' /\ FreshKnown'
  BY <1>1 DEF NextKnown, FreshKnown
<1> QED
  BY <1>5, <1>6

\* the timer the scan passes is not missed
LEMMA PassTimely ==
  ASSUME Spans, TimeInv, ScanPasses
  PROVE  NextKnown' /\ FreshKnown' /\ Watched'
<1>1. /\ TypeOK /\ Watched /\ NextKnown /\ Settings /\ pc = "scan" /\ pc' = "scan"
      /\ t \in Timer /\ ~timer_expired(t) /\ t' = next[t]
  BY DEF TimeInv, SoundInv, ScanPasses, TypeOK
<1>2. /\ UNCHANGED <<now, start, interval, poll, next_expiration, ret>> /\ Listed' = Listed
      /\ \A c : Visits(c)' = Visits(c)
  BY ListSame DEF ScanPasses
<1>3. Visits(t) = {t} \cup Visits(next[t])
  BY <1>1, NullIs, ReachStep DEF TypeOK, Visits
<1>4. t \in Listed
  BY <1>1, NullIs DEF TimeInv, SoundInv, ListSound, CursorsListed
<1>5. ~CLOCK_LT(Expiry(t), next_expiration)
  <2>1. /\ start[t] \in Clock /\ interval[t] \in Clock /\ next_expiration \in Clock
        /\ 2 * interval[t] < ClockSize
    BY <1>1, TimerIs DEF TypeOK, Settings, Spans
  <2>2. Ahead(start[t], interval[t], next_expiration)
    BY <1>1, <1>4 DEF NextKnown, Covered, timer_expired
  <2> QED
    BY <2>1, <2>2, NotAfter DEF Expiry
<1>6. \A et : timer_expired(et)' = timer_expired(et) /\ Expiry(et)' = Expiry(et)
  BY <1>2 DEF timer_expired, clock_time, Expiry
<1>7. ASSUME NEW et \in Listed
      PROVE  \/ poll' \/ ToBeScanned(et)'
             \/ ~timer_expired(et)' /\ ~CLOCK_LT(Expiry(et)', next_expiration')
  <2>1. CASE et = t
    BY <1>1, <1>2, <1>5, <1>6, <2>1
  <2>2. CASE et # t
    <3>1. ToBeScanned(et) => ToBeScanned(et)'
      BY <1>1, <1>2, <1>3, <2>2 DEF ToBeScanned
    <3> QED
      BY <1>1, <1>2, <1>6, <3>1 DEF Watched
  <2> QED
    BY <2>1, <2>2
<1>8. Watched'
  BY <1>2, <1>7 DEF Watched
<1>9. NextKnown' /\ FreshKnown'
  BY <1>1, <1>2, NextSame DEF FreshKnown
<1> QED
  BY <1>8, <1>9

LEMMA BlockedTimely ==
  ASSUME Spans, TimeInv, ScanBlocked
  PROVE  NextKnown' /\ FreshKnown' /\ Watched'
<1>1. poll' = TRUE /\ pc = "scan" /\ pc' = "scan" /\ NextKnown
  BY DEF ScanBlocked, TimeInv
<1>2. UNCHANGED <<now, start, interval, next_expiration>> /\ Listed' = Listed
  BY ListSame DEF ScanBlocked
<1> QED
  BY <1>1, <1>2, NextSame DEF FreshKnown, Watched

LEMMA PostTimely ==
  ASSUME Spans, TimeInv, ScanPosts
  PROVE  NextKnown' /\ FreshKnown' /\ Watched'
<1>1. pc' = "update" /\ ret' = "again"
  BY DEF ScanPosts, update_time
<1> QED
  BY <1>1 DEF NextKnown, FreshKnown, Watched, ToBeScanned

\* the remaining steps only take timers off, or scan what is ahead
LEMMA RestTimely ==
  ASSUME Spans, TimeInv, UNCHANGED <<now, start, interval, next_expiration>>, Listed' \subseteq Listed,
         pc' # "store", pc' \in {"idle", "again", "scan"} => pc \in {"idle", "again", "scan"},
         \A et \in Listed' : poll \/ ToBeScanned(et) => poll' \/ ToBeScanned(et)'
  PROVE  NextKnown' /\ FreshKnown' /\ Watched'
<1>1. NextKnown' /\ FreshKnown'
  BY NextSame DEF TimeInv, FreshKnown
<1>2. \A et : timer_expired(et)' = timer_expired(et) /\ Expiry(et)' = Expiry(et)
  BY DEF timer_expired, clock_time, Expiry
<1>3. Watched'
  BY <1>2 DEF TimeInv, Watched
<1> QED
  BY <1>1, <1>3

LEMMA TimeKept ==
  ASSUME Spans, TimeInv, [Next]_vars
  PROVE  TimeInv'
<1>1. SoundInv' /\ SoundInv /\ TypeOK /\ Settings
  BY SoundKept DEF TimeInv, SoundInv
<1>2. CASE Tick
  BY <1>1, <1>2, TickSettings, TickTimely DEF TimeInv
<1>3. CASE Update
  BY <1>1, <1>3, UpdateTimely, SettingsSame DEF TimeInv, Update
<1>4. CASE Store
  BY <1>1, <1>4, StoreTimely, SettingsSame DEF TimeInv, Store
<1>5. CASE ScanPasses
  BY <1>1, <1>5, PassTimely, SettingsSame DEF TimeInv, ScanPasses
<1>6. CASE ScanBlocked
  BY <1>1, <1>6, BlockedTimely, SettingsSame DEF TimeInv, ScanBlocked
<1>7. CASE ScanPosts
  BY <1>1, <1>7, PostTimely, SettingsSame DEF TimeInv, ScanPosts
<1>8. ASSUME NEW et \in Timer, NEW q \in User[et], SetBy(et, q)
      PROVE  TimeInv'
  BY <1>1, <1>8, SetTimely, SetSettings DEF TimeInv
<1>9. ASSUME NEW et \in Timer, NEW d \in Diff, etimer_adjust(et, d)
      PROVE  TimeInv'
  BY <1>1, <1>9, AdjustTimely, AdjustSettings DEF TimeInv
<1>10. CASE Poll
  <2>1. pc = "idle" /\ pc' = "again" /\ Listed' = Listed /\ UNCHANGED <<now, start, interval, next_expiration>>
    BY <1>10, ListSame DEF Poll
  <2>2. \A et : ToBeScanned(et)'
    BY <2>1 DEF ToBeScanned
  <2> QED
    BY <1>1, <2>1, <2>2, RestTimely, SettingsSame DEF TimeInv
<1>11. CASE Again
  <2>1. /\ pc = "again" /\ pc' = "scan" /\ t' = timerlist
        /\ UNCHANGED <<now, start, interval, next_expiration, timerlist, next>>
    BY <1>11 DEF Again
  <2>2. Listed' = Listed /\ Visits(t') = Listed /\ \A c : Visits(c)' = Visits(c)
    BY <2>1, ListSame DEF Listed
  <2>3. \A et \in Listed' : ToBeScanned(et)'
    BY <2>1, <2>2 DEF ToBeScanned
  <2> QED
    BY <1>1, <2>1, <2>2, <2>3, RestTimely, SettingsSame DEF TimeInv
<1>12. CASE ScanEnds
  <2>1. /\ pc = "scan" /\ pc' = "idle" /\ t = NULL
        /\ UNCHANGED <<now, start, interval, next_expiration, timerlist, next, poll>>
    BY <1>12 DEF ScanEnds
  <2>2. Listed' = Listed /\ Visits(t) = {}
    BY <2>1, ListSame, ReachNull DEF Visits
  <2>3. \A et : ~ToBeScanned(et)
    BY <2>1, <2>2 DEF ToBeScanned
  <2> QED
    BY <1>1, <2>1, <2>2, <2>3, RestTimely, SettingsSame DEF TimeInv
<1>13. ASSUME NEW et \in Timer, etimer_stop(et)
       PROVE  TimeInv'
  <2>1. /\ pc = "idle" /\ pc' \in {"idle", "update"} /\ Listed' \subseteq Listed
        /\ UNCHANGED <<now, start, interval, next_expiration, poll>>
    BY <1>1, <1>13, ListStopped DEF etimer_stop, update_time
  <2>2. \A o : ~ToBeScanned(o)
    BY <2>1 DEF ToBeScanned
  <2> QED
    BY <1>1, <2>1, <2>2, RestTimely, SettingsSame DEF TimeInv
<1>14. ASSUME NEW q \in Proc, Exited(q)
       PROVE  TimeInv'
  <2>1. /\ pc = "idle" /\ pc' = "idle" /\ Listed' \subseteq Listed
        /\ UNCHANGED <<now, start, interval, next_expiration, poll>>
    BY <1>1, <1>14, ListPurged DEF Exited
  <2>2. \A o : ~ToBeScanned(o)
    BY <2>1 DEF ToBeScanned
  <2> QED
    BY <1>1, <2>1, <2>2, RestTimely, SettingsSame DEF TimeInv
<1>15. CASE PostOther \/ Deliver \/ \E q \in Proc : Started(q)
  <2>1. /\ pc = "idle" /\ pc' = "idle" /\ Listed' = Listed
        /\ UNCHANGED <<now, start, interval, next_expiration, poll>>
    BY <1>15, ListSame DEF PostOther, Deliver, Started
  <2>2. \A o : ~ToBeScanned(o)
    BY <2>1 DEF ToBeScanned
  <2> QED
    BY <1>1, <2>1, <2>2, RestTimely, SettingsSame DEF TimeInv
<1>16. CASE UNCHANGED vars
  <2>1. UNCHANGED <<now, timerlist, next, start, interval, next_expiration, poll, pc, ret, t, fresh>>
    BY <1>16 DEF vars
  <2>2. Listed' = Listed /\ \A c : Visits(c)' = Visits(c)
    BY <2>1, ListSame
  <2>3. clock_time' = clock_time
    BY <2>1 DEF clock_time
  <2>4. NextKnown' /\ FreshKnown'
    BY <2>1, <2>2, <2>3 DEF TimeInv, NextKnown, FreshKnown
  <2>5. Watched'
    BY <2>1, <2>2, WatchedSame DEF TimeInv, ToBeScanned
  <2> QED
    BY <1>1, <2>1, <2>4, <2>5, SettingsSame DEF TimeInv
<1> QED
  BY <1>2, <1>3, <1>4, <1>5, <1>6, <1>7, <1>8, <1>9, <1>10, <1>11, <1>12, <1>13, <1>14, <1>15, <1>16
     DEF Next, Running, Scanning, Calls, Processes, SetBy

LEMMA TimeAlways == ASSUME Spans PROVE Spec => []TimeInv
<1>1. Init => TimeInv
  BY InitIsTimely
<1>2. TimeInv /\ [Next]_vars => TimeInv'
  BY TimeKept
<1> QED
  BY <1>1, <1>2, PTL DEF Spec

(* No timer can expire unnoticed: each is due to be looked at, by a poll    *)
(* that is pending or a scan that has not passed it, or next_expiration    *)
(* wakes etimer_process in time for it.                                    *)
THEOREM NoTimerMissed == ASSUME Spans PROVE Spec => []NoMissedTimer
<1>1. TimeInv => NoMissedTimer
  BY DEF TimeInv, Watched, NoMissedTimer
<1> QED
  BY <1>1, TimeAlways, PTL

(* Whenever a process of the program runs while a timer is expired, the     *)
(* poll of etimer_process that will post its event is pending.             *)
THEOREM ExpiredIsPolled == ASSUME Spans PROVE Spec => []ExpiredIsPrompt
<1>1. TimeInv => ExpiredIsPrompt
  BY DEF TimeInv, Watched, ExpiredIsPrompt, ToBeScanned
<1> QED
  BY <1>1, TimeAlways, PTL

(***************************************************************************)
(* The timer service.                                                      *)
(***************************************************************************)
LEMMA DueValue ==
  ASSUME Spans, NEW m \in 0 .. MaxTime, NEW s \in Clock, NEW i \in Interval, NEW c \in Clock,
         Minus(c, s) <= m + Shortest
  PROVE  /\ Signed(Minus(Plus(s, i), c)) = i - Minus(c, s)
         /\ i - Minus(c, s) \in -MaxTime .. ClockSize \div 2
         /\ Expired(s, i, c) <=> i - Minus(c, s) <= 0
         /\ i \in Int /\ Minus(c, s) \in Int
<1>1. i \in Clock /\ 2 * i < ClockSize /\ Shortest \in Clock /\ Shortest <= i
  BY ShortestIs, ClockAssumption DEF Spans
<1>2. Minus(c, s) \in Clock
  BY MinusIs
<1>3. ClockSize \in Nat /\ ClockSize > 0 /\ MaxTime \in Nat /\ 2 * (MaxTime + 1) <= ClockSize
  BY ClockAssumption
<1>8. Minus(c, s) < ClockSize - 1
  <2>1. 2 * Shortest < ClockSize
    BY <1>1, <1>3 DEF Clock
  <2> QED
    BY <1>1, <1>2, <1>3, <2>1 DEF Clock
<1>4. /\ ~Expired(s, i, c) => Minus(Plus(s, i), c) = i - Minus(c, s)
      /\ Expired(s, i, c) /\ i # Minus(c, s) => Minus(Plus(s, i), c) = i - Minus(c, s) + ClockSize
      /\ i = Minus(c, s) => Minus(Plus(s, i), c) = 0
      /\ Expired(s, i, c) <=> i <= Minus(c, s)
  BY <1>1, <1>8, ToGo
<1>5. Minus(c, s) - i <= MaxTime
  BY <1>1, <1>2, <1>3 DEF Clock
<1>6. Signed(Minus(Plus(s, i), c)) = i - Minus(c, s)
  <2>1. CASE ~Expired(s, i, c)
    BY <1>1, <1>2, <1>3, <1>4, <2>1 DEF Clock, Signed
  <2>2. CASE i = Minus(c, s)
    BY <1>1, <1>2, <1>3, <1>4, <2>2 DEF Clock, Signed
  <2>3. CASE Expired(s, i, c) /\ i # Minus(c, s)
    BY <1>1, <1>2, <1>3, <1>4, <1>5, <2>3 DEF Clock, Signed
  <2> QED
    BY <2>1, <2>2, <2>3
<1>7. i - Minus(c, s) \in -MaxTime .. ClockSize \div 2
  BY <1>1, <1>2, <1>3, <1>5 DEF Clock
<1> QED
  BY <1>1, <1>2, <1>4, <1>6, <1>7 DEF Clock

LEMMA DueIs ==
  ASSUME Spans, TimeInv, NEW et \in Listed
  PROVE  /\ et \in Timer /\ now \in Int /\ DueTimes[et] = now + (interval[et] - Minus(clock_time, start[et]))
         /\ interval[et] - Minus(clock_time, start[et]) \in -MaxTime .. ClockSize \div 2
         /\ timer_expired(et) <=> interval[et] - Minus(clock_time, start[et]) <= 0
         /\ interval[et] \in Int /\ Minus(clock_time, start[et]) \in Int
<1>1. /\ et \in Timer /\ now \in 0 .. MaxTime /\ start[et] \in Clock /\ clock_time \in Clock
      /\ interval[et] \in Interval /\ Minus(clock_time, start[et]) <= now + Shortest
  BY ListedIs, TimerIs DEF TimeInv, SoundInv, TypeOK, Settings
<1>2. DueTimes[et] = now + Signed(Minus(Plus(start[et], interval[et]), clock_time))
  BY <1>1 DEF DueTimes
<1> QED
  BY <1>1, <1>2, DueValue, ClockAssumption DEF timer_expired

LEMMA DueIsNext ==
  ASSUME Spans, TimeInv', NEW et \in Timer, et \in Listed'
  PROVE  /\ now' \in Int /\ DueTimes'[et] = now' + (interval'[et] - Minus(clock_time', start'[et]))
         /\ interval'[et] - Minus(clock_time', start'[et]) \in -MaxTime .. ClockSize \div 2
<1>1. /\ now' \in 0 .. MaxTime /\ start'[et] \in Clock /\ Boot \in Clock /\ now' \in Clock
      /\ interval'[et] \in Interval /\ Minus(clock_time', start'[et]) <= now' + Shortest
  BY ClockAssumption DEF TimeInv, SoundInv, TypeOK, Settings, Clock
<1>2. clock_time' \in Clock
  BY <1>1, PlusIs DEF clock_time
<1>3. DueTimes'[et] = now' + Signed(Minus(Plus(start'[et], interval'[et]), clock_time'))
  BY <1>1 DEF DueTimes
<1>4. /\ Signed(Minus(Plus(start'[et], interval'[et]), clock_time')) = interval'[et] - Minus(clock_time', start'[et])
      /\ interval'[et] - Minus(clock_time', start'[et]) \in -MaxTime .. ClockSize \div 2
  BY <1>1, <1>2, DueValue
<1> QED
  BY <1>1, <1>3, <1>4

LEMMA NotArmed ==
  /\ \A et \in Timer : et \notin Listed => DueTimes[et] = NULL /\ Owners[et] = NULL
  /\ \A et \in Timer : et \in Listed => Owners[et] = p[et]
  /\ DueTimes = [et \in Timer |-> DueTimes[et]] /\ Owners = [et \in Timer |-> Owners[et]]
BY DEF DueTimes, Owners

LEMMA NotArmedNext ==
  /\ \A et \in Timer : et \notin Listed' => DueTimes'[et] = NULL /\ Owners'[et] = NULL
  /\ \A et \in Timer : et \in Listed' => Owners'[et] = p'[et]
  /\ DueTimes' = [et \in Timer |-> DueTimes'[et]] /\ Owners' = [et \in Timer |-> Owners'[et]]
BY DEF DueTimes, Owners

\* a timer that stays on the list and is not set
LEMMA DueSame ==
  ASSUME NEW et \in Timer, et \in Listed, et \in Listed',
         now' = now, start'[et] = start[et], interval'[et] = interval[et]
  PROVE  DueTimes'[et] = DueTimes[et]
BY DEF DueTimes, clock_time

LEMMA ServiceSame ==
  ASSUME Listed' = Listed, UNCHANGED <<now, start, interval, p>>
  PROVE  DueTimes' = DueTimes /\ Owners' = Owners
BY DEF DueTimes, Owners, clock_time

LEMMA InitIsService == Init => Service!SInit
<1> SUFFICES ASSUME Init
             PROVE  Service!SInit
  OBVIOUS
<1>1. Listed = {}
  BY ReachNull DEF Init, Listed, Visits
<1> QED
  BY <1>1 DEF Init, Service!SInit, DueTimes, Owners

LEMMA TickIsService ==
  ASSUME Spans, TimeInv, TimeInv', Tick
  PROVE  Service!STick
<1>1. /\ clock_time' = Plus(clock_time, 1) /\ 1 \in Clock /\ now < MaxTime /\ now' = now + 1
      /\ TypeOK /\ Settings
  BY TickIs DEF TimeInv, SoundInv
<1>2. /\ UNCHANGED <<start, interval, p, queue, alive>> /\ Listed' = Listed
  BY ListSame DEF Tick
<1>3. ASSUME NEW et \in Listed
      PROVE  DueTimes'[et] = DueTimes[et]
  <2>1. et \in Timer /\ et \in Listed'
    BY <1>1, <1>2, <1>3, ListedIs
  <2>2. /\ start[et] \in Clock /\ clock_time \in Clock /\ Minus(clock_time, start[et]) < ClockSize - 1
    BY <1>1, <2>1, TimerIs, NoTurn
  <2>3. Minus(clock_time', start'[et]) = Minus(clock_time, start[et]) + 1
    BY <1>1, <1>2, <2>2, OneMore
  <2>4. DueTimes'[et] = now' + (interval'[et] - Minus(clock_time', start'[et]))
    BY <2>1, DueIsNext
  <2>5. /\ DueTimes[et] = now + (interval[et] - Minus(clock_time, start[et]))
        /\ interval[et] \in Int /\ Minus(clock_time, start[et]) \in Int /\ now \in Int
    BY DueIs
  <2> QED
    BY <1>1, <1>2, <2>3, <2>4, <2>5
<1>4. \A et \in Timer : DueTimes'[et] = DueTimes[et]
  BY <1>2, <1>3, NotArmed, NotArmedNext
<1>5. DueTimes' = DueTimes
  BY <1>4, NotArmed, NotArmedNext
<1>6. Owners' = Owners
  BY <1>2 DEF Owners
<1> QED
  BY <1>1, <1>2, <1>5, <1>6 DEF Service!STick

\* et is armed for q, and nothing else changes
LEMMA ArmIsService ==
  ASSUME Spans, TimeInv, TimeInv', NEW et \in Timer, NEW q \in alive,
         Listed' = Listed \cup {et}, p'[et] = q, UNCHANGED <<now, queue, alive>>,
         \A o \in Timer \ {et} : start'[o] = start[o] /\ interval'[o] = interval[o] /\ p'[o] = p[o]
  PROVE  Service!SArm(et, q, DueTimes'[et])
<1>1. DueTimes'[et] - now \in -MaxTime .. ClockSize \div 2
  <2>1. /\ DueTimes'[et] = now' + (interval'[et] - Minus(clock_time', start'[et])) /\ now' \in Int
        /\ interval'[et] - Minus(clock_time', start'[et]) \in -MaxTime .. ClockSize \div 2
    BY DueIsNext
  <2> DEFINE x == interval'[et] - Minus(clock_time', start'[et])
  <2> HIDE DEF x
  <2>2. x \in -MaxTime .. ClockSize \div 2 /\ DueTimes'[et] = now + x /\ now \in Int
    BY <2>1 DEF x
  <2>3. x \in Int
    BY <2>2, ClockAssumption
  <2> QED
    BY <2>2, <2>3
<1>2. ASSUME NEW o \in Timer \ {et}
      PROVE  DueTimes'[o] = DueTimes[o] /\ Owners'[o] = Owners[o]
  <2>1. CASE o \in Listed
    BY <1>2, <2>1, DueSame, NotArmed, NotArmedNext
  <2>2. CASE o \notin Listed
    BY <1>2, <2>2, NotArmed, NotArmedNext
  <2> QED
    BY <2>1, <2>2
<1>3. DueTimes' = [DueTimes EXCEPT ![et] = DueTimes'[et]]
  BY <1>2, NotArmed, NotArmedNext
<1>4. Owners' = [Owners EXCEPT ![et] = q]
  BY <1>2, NotArmed, NotArmedNext
<1> QED
  BY <1>1, <1>3, <1>4 DEF Service!SArm

\* the timers of S leave the list
LEMMA LeaveIsService ==
  ASSUME NEW S \in SUBSET Timer, Listed' = Listed \ S, UNCHANGED <<now, start, interval>>,
         \A o \in Listed' : p'[o] = p[o]
  PROVE  /\ DueTimes' = [et \in Timer |-> IF et \in S THEN NULL ELSE DueTimes[et]]
         /\ Owners' = [et \in Timer |-> IF et \in S THEN NULL ELSE Owners[et]]
<1>1. ASSUME NEW o \in Timer
      PROVE  /\ DueTimes'[o] = IF o \in S THEN NULL ELSE DueTimes[o]
             /\ Owners'[o] = IF o \in S THEN NULL ELSE Owners[o]
  <2>1. CASE o \in Listed \ S
    BY <2>1, DueSame, NotArmed, NotArmedNext
  <2>2. CASE o \notin Listed \ S
    BY <2>2, NotArmed, NotArmedNext
  <2> QED
    BY <2>1, <2>2
<1> QED
  BY <1>1, NotArmedNext

LEMMA PostIsService ==
  ASSUME Spans, TimeInv, ScanPosts
  PROVE  Service!SFire(t)
<1>1. /\ TypeOK /\ t \in Listed /\ Listed' = Listed \ {t} /\ t \in Timer
      /\ UNCHANGED <<now, start, interval, alive>> /\ p' = [p EXCEPT ![t] = NULL]
      /\ queue' = Append(queue, [p |-> p[t], et |-> t]) /\ Len(queue) < NumEvents
      /\ timer_expired(t)
  BY ListPosted, ListedIs DEF TimeInv, SoundInv, ScanPosts
<1>2. \A o \in Listed' : p'[o] = p[o]
  BY <1>1, ListedIs DEF TypeOK
<1>3. /\ DueTimes' = [et \in Timer |-> IF et \in {t} THEN NULL ELSE DueTimes[et]]
      /\ Owners' = [et \in Timer |-> IF et \in {t} THEN NULL ELSE Owners[et]]
  <2> DEFINE S == {t}
  <2>1. S \in SUBSET Timer /\ Listed' = Listed \ S
    BY <1>1
  <2> HIDE DEF S
  <2>2. /\ DueTimes' = [et \in Timer |-> IF et \in S THEN NULL ELSE DueTimes[et]]
        /\ Owners' = [et \in Timer |-> IF et \in S THEN NULL ELSE Owners[et]]
    BY <1>1, <1>2, <2>1, LeaveIsService
  <2> QED
    BY <2>2 DEF S
<1>4. DueTimes' = [DueTimes EXCEPT ![t] = NULL] /\ Owners' = [Owners EXCEPT ![t] = NULL]
  BY <1>1, <1>3, NotArmed
<1>5. DueTimes[t] \in Int /\ DueTimes[t] <= now
  BY <1>1, DueIs
<1>6. t \in Service!Armed
  BY <1>1, <1>5, NullIs DEF Service!Armed
<1>7. Owners[t] = p[t]
  BY <1>1, NotArmed
<1> QED
  BY <1>1, <1>4, <1>5, <1>6, <1>7 DEF Service!SFire

LEMMA StepIsService ==
  ASSUME Spans, TimeInv, TimeInv', [Next]_vars
  PROVE  [Service!SNext]_(Service!svars)
<1> USE DEF Service!svars
<1>1. TypeOK /\ SoundInv
  BY DEF TimeInv, SoundInv
<1>2. CASE Tick
  BY <1>2, TickIsService DEF Service!SNext
<1>3. CASE ScanPosts
  <2>1. t \in Timer
    BY <1>1, <1>3 DEF ScanPosts, TypeOK
  <2> QED
    BY <1>3, <2>1, PostIsService DEF Service!SNext
<1>4. ASSUME NEW et \in Timer, NEW q \in User[et], SetBy(et, q)
      PROVE  Service!SNext
  <2>1. /\ q \in Proc /\ q \in alive /\ add_timer(et, q)
        /\ \A o \in Timer \ {et} : start'[o] = start[o] /\ interval'[o] = interval[o]
    BY <1>1, <1>4, SetIs
  <2>2. Listed' = Listed \cup {et}
    BY <1>1, <2>1, ListAdded
  <2>3. p'[et] = q /\ UNCHANGED <<now, queue, alive>> /\ \A o \in Timer \ {et} : p'[o] = p[o]
    BY <1>1, <2>1 DEF add_timer, TypeOK
  <2>4. Service!SArm(et, q, DueTimes'[et])
    BY <2>1, <2>2, <2>3, ArmIsService
  <2> QED
    BY <2>1, <2>4 DEF Service!SNext
<1>5. ASSUME NEW et \in Timer, NEW d \in Diff, etimer_adjust(et, d)
      PROVE  [Service!SNext]_(Service!svars)
  <2>1. /\ UNCHANGED <<now, interval, p, queue, alive>> /\ start' = [start EXCEPT ![et] = Plus(start[et], d)]
        /\ Listed' = Listed
    BY <1>5, ListSame DEF etimer_adjust
  <2>2. \A o \in Timer \ {et} : start'[o] = start[o]
    BY <1>1, <2>1 DEF TypeOK
  <2>3. CASE et \in Listed
    <3>1. p[et] \in Proc /\ p[et] \in alive
      BY <1>1, <2>3 DEF SoundInv, ListSound, OwnersRun, TypeOK
    <3>2. Service!SArm(et, p[et], DueTimes'[et])
      BY <2>1, <2>2, <2>3, <3>1, ArmIsService
    <3> QED
      BY <3>1, <3>2 DEF Service!SNext
  <2>4. CASE et \notin Listed
    <3>1. \A o \in Timer : DueTimes'[o] = DueTimes[o]
      BY <2>1, <2>2, <2>4, DueSame, NotArmed, NotArmedNext
    <3>2. DueTimes' = DueTimes
      BY <3>1, NotArmed, NotArmedNext
    <3>3. Owners' = Owners
      BY <2>1 DEF Owners
    <3> QED
      BY <2>1, <3>2, <3>3
  <2> QED
    BY <2>3, <2>4
<1>6. ASSUME NEW et \in Timer, etimer_stop(et)
      PROVE  Service!SNext
  <2>1. /\ Listed' = Listed \ {et} /\ UNCHANGED <<now, start, interval, queue, alive>>
        /\ p' = [p EXCEPT ![et] = NULL]
    BY <1>1, <1>6, ListStopped DEF etimer_stop
  <2>2. \A o \in Listed' : p'[o] = p[o]
    BY <1>1, <2>1, ListedIs DEF TypeOK
  <2> DEFINE S == {et}
  <2>3. S \in SUBSET Timer /\ Listed' = Listed \ S
    BY <2>1
  <2> HIDE DEF S
  <2>4. Service!Disarmed(S)
    BY <2>1, <2>2, <2>3, LeaveIsService DEF Service!Disarmed
  <2> QED
    BY <2>1, <2>4 DEF Service!SNext, Service!SStop, S
<1>7. ASSUME NEW q \in Proc, Exited(q)
      PROVE  Service!SNext
  <2> DEFINE S == {et \in Timer : Owners[et] = q}
  <2>1. /\ Listed' = {x \in Listed : p[x] # q} /\ UNCHANGED <<now, start, interval, queue, p>>
        /\ q \in alive /\ alive' = alive \ {q}
    BY <1>1, <1>7, ListPurged DEF Exited
  <2>2. Listed' = Listed \ S
    BY <1>1, <2>1, NullIs, NotArmed, ListedIs
  <2> HIDE DEF S
  <2>3. S \in SUBSET Timer
    BY DEF S
  <2>4. Service!Disarmed(S)
    BY <2>1, <2>2, <2>3, LeaveIsService DEF Service!Disarmed
  <2> QED
    BY <2>1, <2>4 DEF Service!SNext, Service!SExit, S
<1>8. CASE PostOther
  <2>1. UNCHANGED <<now, start, interval, p, alive>> /\ Listed' = Listed
    BY <1>8, ListSame DEF PostOther
  <2> QED
    BY <1>8, <2>1, ServiceSame DEF PostOther, Service!SNext, Service!SOther
<1>9. CASE Deliver
  <2>1. UNCHANGED <<now, start, interval, p, alive>> /\ Listed' = Listed
    BY <1>9, ListSame DEF Deliver
  <2> QED
    BY <1>9, <2>1, ServiceSame DEF Deliver, Service!SNext, Service!STake
<1>10. CASE \/ Poll \/ Again \/ ScanEnds \/ ScanPasses \/ ScanBlocked \/ Update \/ Store
  <2>1. UNCHANGED <<now, start, interval, p, queue, timerlist, next, alive>>
    BY <1>10 DEF Poll, Again, ScanEnds, ScanPasses, ScanBlocked, Update, Store
  <2> QED
    BY <2>1, ListSame, ServiceSame
<1>11. CASE UNCHANGED vars
  <2>1. UNCHANGED <<now, start, interval, p, queue, timerlist, next, alive>>
    BY <1>11 DEF vars
  <2> QED
    BY <2>1, ListSame, ServiceSame
<1>12. ASSUME NEW q \in Proc, Started(q)
       PROVE  Service!SNext
  <2>1. /\ UNCHANGED <<now, start, interval, p, queue, timerlist, next>>
        /\ q \notin alive /\ alive' = alive \cup {q}
    BY <1>12 DEF Started
  <2>2. DueTimes' = DueTimes /\ Owners' = Owners
    BY <2>1, ListSame, ServiceSame
  <2> QED
    BY <2>1, <2>2 DEF Service!SNext, Service!SStart
<1> QED
  BY <1>2, <1>3, <1>4, <1>5, <1>6, <1>7, <1>8, <1>9, <1>10, <1>11, <1>12
     DEF Next, Running, Scanning, Calls, Processes, SetBy

(* etimer.c implements the timer service: a TIMER event is posted only for *)
(* a timer that is armed, to the running process that armed it, not before *)
(* its interval is over and once for each time it was armed; a stop and    *)
(* the exit of the owner disarm it.  Every other step of the code is       *)
(* invisible or arms, starts, delivers or ticks as the service does.  That *)
(* an expired timer is posted is not part of it.                           *)
THEOREM ImplementsService == ASSUME Spans PROVE Spec => ServiceSpec
<1>1. Init => Service!SInit
  BY InitIsService
<1>2. TimeInv /\ TimeInv' /\ [Next]_vars => [Service!SNext]_(Service!svars)
  BY StepIsService
<1> QED
  BY <1>1, <1>2, TimeAlways, PTL DEF Spec, ServiceSpec, Service!SSpec
================================================================================
