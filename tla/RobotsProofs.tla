----------------------------- MODULE RobotsProofs -----------------------------
(***************************************************************************)
(* Proofs about Robots: whatever lines a robots.txt has, parsing it and    *)
(* asking the groups gives what the lines themselves promise.              *)
(***************************************************************************)
EXTENDS Robots, TLAPS, FiniteSetTheorems, WellFoundedInduction, SequenceTheorems

-----------------------------------------------------------------------------
(***************************************************************************)
(* Numbers: induction up to a bound, greatest and least members            *)
(***************************************************************************)

\* Some set of numbers has no member without having a least one.
LEMMA Least ==
  ASSUME NEW T \in SUBSET Nat, T # {}
  PROVE  \E n \in T : \A m \in T : n <= m
<1> DEFINE R == OpToRel(<, Nat)
<1>1. IsWellFoundedOn(R, Nat)
  BY NatLessThanWellFounded
<1> HIDE DEF R
<1>2. PICK n \in T : \A m \in T : ~(<<m, n>> \in R)
  BY <1>1, WFMin
<1>3. \A m \in T : n <= m
  <2> SUFFICES ASSUME NEW m \in T, ~(n <= m) PROVE FALSE
    OBVIOUS
  <2>1. m \in Nat /\ n \in Nat /\ m < n
    OBVIOUS
  <2>2. <<m, n>> \in R
    BY <2>1 DEF R, OpToRel
  <2> QED
    BY <1>2, <2>2
<1> QED
  BY <1>3

\* What holds of 0 and is handed on holds up to the bound.
Inductive(T, N) ==
  N \in Nat /\ 0 \in T /\ \A n \in 0..(N - 1) : n \in T => n + 1 \in T

LEMMA Induction ==
  ASSUME NEW T, NEW N, Inductive(T, N)
  PROVE  \A n \in 0..N : n \in T
<1>0. N \in Nat /\ 0 \in T /\ \A n \in 0..(N - 1) : n \in T => n + 1 \in T
  BY DEF Inductive
<1> SUFFICES ASSUME NEW z \in 0..N, z \notin T PROVE FALSE
  OBVIOUS
<1> DEFINE U == {n \in 0..N : n \notin T}
<1>1. U \in SUBSET Nat /\ U # {}
  BY <1>0
<1> HIDE DEF U
<1>2. PICK n \in U : \A m \in U : n <= m
  BY <1>1, Least
<1>3. n \in 0..N /\ n \notin T /\ n # 0
  BY <1>0, <1>2 DEF U
<1>4. n - 1 \in 0..(N - 1) /\ n - 1 + 1 = n /\ n - 1 \in 0..N /\ ~(n <= n - 1)
  BY <1>0, <1>3
<1>5. n - 1 \in T
  BY <1>2, <1>4 DEF U
<1> QED
  BY <1>0, <1>3, <1>4, <1>5

\* A finite set of numbers has a greatest member, unless it is empty.
LEMMA MaxOfFinite ==
  ASSUME NEW S \in SUBSET Nat, IsFiniteSet(S), S # {}
  PROVE  Max(S) \in S /\ \A y \in S : y <= Max(S)
<1>1. PICK n \in Nat : ExistsSurjection(1..n, S)
  BY FS_NatSurjection
<1>2. PICK f \in [1..n -> S] : \A y \in S : \E i \in 1..n : f[i] = y
  BY <1>1 DEF ExistsSurjection, Surjection
<1> DEFINE T == {m \in 0..n : m = 0 \/ \E i \in 1..m : \A j \in 1..m : f[j] <= f[i]}
<1>3. 0 \in T
  BY <1>1
<1>4. ASSUME NEW m \in 0..(n - 1), m \in T PROVE m + 1 \in T
  <2>1. m + 1 \in 1..n /\ m \in 0..n
    BY <1>1
  <2>2. \A i \in 1..n : f[i] \in Nat
    BY <1>2
  <2>3. CASE m = 0
    BY <2>1, <2>2, <2>3
  <2>4. CASE \E i \in 1..m : \A j \in 1..m : f[j] <= f[i]
    <3>1. PICK i \in 1..m : \A j \in 1..m : f[j] <= f[i]
      BY <2>4
    <3>2. i \in 1..n /\ i \in 1..(m + 1) /\ m + 1 \in 1..(m + 1)
      BY <2>1
    <3>3. \A j \in 1..(m + 1) : j \in 1..n /\ (j \in 1..m \/ j = m + 1)
      BY <2>1
    <3>4. CASE f[m + 1] <= f[i]
      BY <2>1, <3>1, <3>2, <3>3, <3>4
    <3>5. CASE f[i] <= f[m + 1]
      <4>1. \A j \in 1..(m + 1) : f[j] <= f[m + 1]
        BY <2>1, <2>2, <3>1, <3>2, <3>3, <3>5
      <4> QED
        BY <2>1, <3>2, <4>1
    <3> QED
      BY <2>1, <2>2, <3>2, <3>4, <3>5
  <2> QED
    BY <1>4, <2>3, <2>4
<1> HIDE DEF T
<1>5. n \in T
  <2>1. Inductive(T, n)
    BY <1>1, <1>3, <1>4 DEF Inductive
  <2>2. \A m \in 0..n : m \in T
    BY <2>1, Induction, Zenon
  <2> QED
    BY <1>1, <2>2
<1>6. n # 0
  <2>1. PICK y \in S : TRUE
    OBVIOUS
  <2>2. PICK i \in 1..n : f[i] = y
    BY <1>2
  <2> QED
    BY <1>1, <2>2
<1>7. \E i \in 1..n : \A j \in 1..n : f[j] <= f[i]
  BY <1>5, <1>6 DEF T
<1>8. \E x \in S : \A y \in S : x >= y
  <2>1. PICK i \in 1..n : \A j \in 1..n : f[j] <= f[i]
    BY <1>7
  <2>2. f[i] \in S
    BY <1>2
  <2>3. ASSUME NEW y \in S PROVE f[i] >= y
    <3>1. PICK j \in 1..n : f[j] = y
      BY <1>2
    <3>2. f[j] <= f[i] /\ f[i] \in Nat /\ f[j] \in Nat
      BY <1>2, <2>1, <2>2, <3>1
    <3> QED
      BY <3>1, <3>2
  <2> QED
    BY <2>2, <2>3
<1>9. Max(S) \in S /\ \A y \in S : Max(S) >= y
  BY <1>8, Zenon DEF Max
<1> HIDE DEF Max
<1>10. Max(S) \in Nat
  BY <1>9
<1> QED
  BY <1>9, <1>10

LEMMA MinOfSome ==
  ASSUME NEW S \in SUBSET Nat, S # {}
  PROVE  Min(S) \in S /\ \A y \in S : Min(S) <= y
BY Least DEF Min

(***************************************************************************)
(* A loop: each round makes the next value from the last one.              *)
(***************************************************************************)

\* The rounds take values of S to values of S, and h has made them one by one.
Steps(S, N, step) == N \in Nat /\ step \in [1..N -> [S -> S]]
Looped(S, base, N, step, h) ==
  h \in [0..N -> S] /\ h[0] = base /\ \A n \in 1..N : h[n] = step[n][h[n - 1]]

\* A loop over n items has a value after every round, of the type of its steps.
LEMMA Recursion ==
  ASSUME NEW S, NEW base \in S, NEW N, NEW step, Steps(S, N, step)
  PROVE  \E h : Looped(S, base, N, step, h)
<1>0. N \in Nat /\ step \in [1..N -> [S -> S]]
  BY DEF Steps
<1> DEFINE Upto(n, h) == h[0] = base /\ \A i \in 1..n : h[i] = step[i][h[i - 1]]
           T == {n \in 0..N : \E h \in [0..n -> S] : Upto(n, h)}
<1>1. 0 \in T
  <2> DEFINE h == [i \in 0..0 |-> base]
  <2>1. h \in [0..0 -> S] /\ Upto(0, h)
    OBVIOUS
  <2> HIDE DEF h, Upto
  <2>2. 0 \in 0..N
    BY <1>0
  <2> QED
    BY <2>1, <2>2
<1>2. ASSUME NEW n \in 0..(N - 1), n \in T PROVE n + 1 \in T
  <2>1. PICK h \in [0..n -> S] : Upto(n, h)
    BY <1>2
  <2> DEFINE g == [i \in 0..(n + 1) |-> IF i = n + 1 THEN step[n + 1][h[n]] ELSE h[i]]
  <2>2. n + 1 \in 1..N /\ n \in 0..n /\ n \in Nat
    BY <1>0
  <2>3. step[n + 1][h[n]] \in S
    BY <1>0, <2>1, <2>2
  <2>4. g \in [0..(n + 1) -> S]
    BY <2>1, <2>3
  <2>5. g[0] = base
    BY <2>1, <2>2
  <2>6. ASSUME NEW i \in 1..(n + 1) PROVE g[i] = step[i][g[i - 1]]
    <3>1. i - 1 \in 0..n /\ i - 1 # n + 1 /\ i - 1 \in 0..(n + 1)
      BY <2>2
    <3>a. g[i - 1] = h[i - 1]
      BY <3>1
    <3>2. CASE i = n + 1
      <4>1. i - 1 = n /\ i \in 0..(n + 1)
        BY <2>2, <3>2
      <4> QED
        BY <3>a, <3>2, <4>1
    <3>3. CASE i \in 1..n
      <4>1. i \in 0..(n + 1) /\ i # n + 1
        BY <2>2, <3>3
      <4>2. g[i] = h[i] /\ h[i] = step[i][h[i - 1]]
        BY <2>1, <3>3, <4>1
      <4> QED
        BY <3>a, <4>2
    <3> QED
      BY <2>2, <3>2, <3>3
  <2>7. Upto(n + 1, g)
    BY <2>5, <2>6
  <2>8. n + 1 \in 0..N
    BY <1>0
  <2> HIDE DEF g, Upto
  <2> QED
    BY <2>4, <2>7, <2>8
<1> HIDE DEF T
<1>3. N \in T
  <2>1. Inductive(T, N)
    BY <1>0, <1>1, <1>2 DEF Inductive
  <2>2. \A n \in 0..N : n \in T
    BY <2>1, Induction, Zenon
  <2> QED
    BY <1>0, <2>2
<1> QED
  BY <1>3 DEF T, Looped

\* Whatever is started alike and goes on alike from members of S is that loop.
LEMMA Settled ==
  ASSUME NEW S, NEW base \in S, NEW N, NEW step, Steps(S, N, step),
         NEW f, f = [n \in 0..N |-> f[n]], f[0] = base,
         \A n \in 1..N : f[n - 1] \in S => f[n] = step[n][f[n - 1]]
  PROVE  Looped(S, base, N, step, f)
<1> DEFINE T == {n \in 0..N : f[n] \in S}
<1>1. N \in Nat /\ \A n \in 1..N, x \in S : step[n][x] \in S
  BY DEF Steps
<1>2. ASSUME NEW n \in 0..(N - 1), n \in T PROVE n + 1 \in T
  <2>1. PICK m \in 1..N : m = n + 1 /\ m - 1 = n /\ m \in 0..N
    BY <1>1
  <2>2. f[m - 1] \in S
    BY <1>2, <2>1
  <2>3. f[m] = step[m][f[m - 1]]
    BY <2>2
  <2>4. f[m] \in S
    BY <1>1, <2>2, <2>3
  <2> QED
    BY <2>1, <2>4
<1>3. Inductive(T, N)
  BY <1>1, <1>2 DEF Inductive
<1>4. \A n \in 0..N : n \in T
  <2> HIDE DEF T
  <2> QED
    BY <1>3, Induction, Zenon
<1>5. \A n \in 1..N : n - 1 \in 0..N
  BY <1>1
<1>6. f \in [0..N -> S]
  BY <1>4
<1> QED
  BY <1>4, <1>5, <1>6 DEF Looped

-----------------------------------------------------------------------------
(***************************************************************************)
(* One line of the file                                                    *)
(***************************************************************************)

Rules == [key : {"rule"}, allow : BOOLEAN, pattern : Seq(STRING)]
Group == [tokens : SUBSET STRING, rules : Seq(Rules), delay : Nat]

\* What parse keeps between lines: a block of agents is only open in a group.
State == {s \in [groups : Seq(Group), starting : BOOLEAN] : s.starting => s.groups # <<>>}
Start == [groups |-> <<>>, starting |-> FALSE]

\* A group that is not there yet is like an empty one.
GroupAt(groups, k) == IF k \in 1..Len(groups) THEN groups[k] ELSE NewGroup

\* What a line adds to its group.
Updated(group, line) ==
  IF line.key = "user-agent" THEN [group EXCEPT !.tokens = @ \cup {line.token}]
  ELSE Extended(group, line)

\* Replacing one member of a sequence.
LEMMA Replaced ==
  ASSUME NEW S, NEW q \in Seq(S), NEW i \in 1..Len(q), NEW e \in S,
         NEW w, w = [q EXCEPT ![i] = e]
  PROVE  /\ w \in Seq(S) /\ Len(w) = Len(q)
         /\ \A j \in 1..Len(q) : w[j] = IF j = i THEN e ELSE q[j]
OBVIOUS

LEMMA LineTypes ==
  ASSUME NEW line \in Line
  PROVE  /\ line.key \in {"user-agent", "rule", "crawl-delay", "other"}
         /\ line.key = "user-agent" => line.token \in STRING
         /\ line.key = "rule" => line \in Rules
         /\ line.key = "crawl-delay" => line.delay \in Nat
BY DEF Line, Rules

LEMMA NewGroupType == NewGroup \in Group
BY DEF NewGroup, Group

LEMMA UpdatedType ==
  ASSUME NEW group \in Group, NEW line \in Line
  PROVE  Updated(group, line) \in Group
<1>1. CASE line.key = "user-agent"
  <2>1. line.token \in STRING
    BY <1>1, LineTypes
  <2> QED
    BY <1>1, <2>1 DEF Updated, Group
<1>2. CASE line.key = "rule" /\ line.pattern # <<>>
  <2>1. line \in Rules
    BY <1>2, LineTypes
  <2>2. Append(group.rules, line) \in Seq(Rules)
    BY <2>1 DEF Group
  <2>3. Updated(group, line) = [group EXCEPT !.rules = Append(@, line)]
    BY <1>2 DEF Updated, Extended
  <2> QED
    BY <2>2, <2>3 DEF Group
<1>3. CASE line.key = "crawl-delay"
  <2>1. line.delay \in Nat
    BY <1>3, LineTypes
  <2>2. Updated(group, line) = [group EXCEPT !.delay = line.delay]
    BY <1>3 DEF Updated, Extended
  <2> QED
    BY <2>1, <2>2 DEF Group
<1>4. CASE /\ line.key \notin {"user-agent", "crawl-delay"}
           /\ ~(line.key = "rule" /\ line.pattern # <<>>)
  BY <1>4 DEF Updated, Extended
<1> QED
  BY <1>1, <1>2, <1>3, <1>4

\* A User-agent line opens a group unless a block is open; it and every other line
\* change the last group and nothing else.
LEMMA LineDoes ==
  ASSUME NEW s \in State, NEW line \in Line
  PROVE  /\ ParseLine(s, line) \in State
         /\ ParseLine(s, line).starting = (line.key = "user-agent")
         /\ Len(ParseLine(s, line).groups)
              = IF line.key = "user-agent" /\ ~s.starting THEN Len(s.groups) + 1
                ELSE Len(s.groups)
         /\ \A k \in Nat \ {0} :
              GroupAt(ParseLine(s, line).groups, k)
                = IF k = Len(ParseLine(s, line).groups)
                  THEN Updated(GroupAt(s.groups, k), line)
                  ELSE GroupAt(s.groups, k)
<1> DEFINE a  == ParseLine(s, line)
           gs == s.groups
           n  == Len(gs)
<1>1. /\ gs \in Seq(Group) /\ n \in Nat /\ s.starting \in BOOLEAN
      /\ s.starting => n # 0
      /\ \A k \in 1..n : gs[k] \in Group
  BY DEF State
<1>2. gs = <<>> <=> n = 0
  BY <1>1
<1>3. CASE line.key = "user-agent" /\ s.starting
  <2> DEFINE new == [gs EXCEPT ![n].tokens = @ \cup {line.token}]
  <2>1. a = [groups |-> new, starting |-> TRUE]
    BY <1>3 DEF ParseLine, Groups
  <2>2. n \in 1..n
    BY <1>1, <1>3
  <2>3. Updated(gs[n], line) = [gs[n] EXCEPT !.tokens = @ \cup {line.token}]
    BY <1>3 DEF Updated
  <2>4. Updated(gs[n], line) \in Group
    BY <1>1, <2>2, UpdatedType
  <2>5. new = [gs EXCEPT ![n] = Updated(gs[n], line)]
    BY <2>3
  <2>6. /\ new \in Seq(Group) /\ Len(new) = n
        /\ \A k \in 1..n : new[k] = IF k = n THEN Updated(gs[n], line) ELSE gs[k]
    <3> HIDE DEF n, gs, new
    <3> DEFINE u == Updated(gs[n], line)
               w == [gs EXCEPT ![n] = u]
    <3>1. gs \in Seq(Group) /\ n \in 1..Len(gs) /\ u \in Group /\ Len(gs) = n
      BY <1>1, <2>2, <2>4 DEF n
    <3>2. new = w
      BY <2>5
    <3>a. w = [gs EXCEPT ![n] = u]
      OBVIOUS
    <3> HIDE DEF u, w
    <3>3. w \in Seq(Group) /\ Len(w) = Len(gs)
          /\ \A k \in 1..Len(gs) : w[k] = IF k = n THEN u ELSE gs[k]
      BY <3>1, <3>a, Replaced
    <3> QED
      BY <3>1, <3>2, <3>3 DEF u
  <2> HIDE DEF new
  <2>7. a \in State
    <3>1. new # <<>>
      BY <2>2, <2>6
    <3> QED
      BY <2>1, <2>6, <3>1 DEF State
  <2>8. \A k \in Nat \ {0} :
          GroupAt(new, k) = IF k = n THEN Updated(GroupAt(gs, k), line) ELSE GroupAt(gs, k)
    BY <1>1, <2>2, <2>6 DEF GroupAt
  <2>9. a.groups = new /\ a.starting = TRUE
    BY <2>1
  <2> QED
    BY <1>3, <2>6, <2>7, <2>8, <2>9
<1>4. CASE line.key = "user-agent" /\ ~s.starting
  <2> DEFINE more == Append(gs, NewGroup)
             new  == [more EXCEPT ![Len(more)].tokens = @ \cup {line.token}]
  <2>1. a = [groups |-> new, starting |-> TRUE]
    BY <1>4 DEF ParseLine, Groups
  <2>2. /\ more \in Seq(Group) /\ Len(more) = n + 1 /\ more[n + 1] = NewGroup
        /\ \A k \in 1..n : more[k] = gs[k]
    BY <1>1, NewGroupType, AppendProperties
  <2> HIDE DEF more
  <2>3. Updated(NewGroup, line) = [NewGroup EXCEPT !.tokens = @ \cup {line.token}]
    BY <1>4 DEF Updated
  <2>4. Updated(NewGroup, line) \in Group
    BY NewGroupType, UpdatedType
  <2>5. new = [more EXCEPT ![n + 1] = Updated(NewGroup, line)]
    BY <2>2, <2>3
  <2>6. /\ new \in Seq(Group) /\ Len(new) = n + 1
        /\ \A k \in 1..(n + 1) : new[k] = IF k = n + 1 THEN Updated(NewGroup, line) ELSE gs[k]
    <3> HIDE DEF n, gs, new
    <3> DEFINE u == Updated(NewGroup, line)
               w == [more EXCEPT ![n + 1] = u]
    <3>1. more \in Seq(Group) /\ n + 1 \in 1..Len(more) /\ u \in Group /\ Len(more) = n + 1
      BY <1>1, <2>2, <2>4
    <3>2. new = w
      BY <2>5
    <3>a. w = [more EXCEPT ![n + 1] = u]
      OBVIOUS
    <3> HIDE DEF u, w
    <3>3. w \in Seq(Group) /\ Len(w) = Len(more)
          /\ \A k \in 1..Len(more) : w[k] = IF k = n + 1 THEN u ELSE more[k]
      BY <3>1, <3>a, Replaced
    <3>4. \A k \in 1..(n + 1) : k # n + 1 => k \in 1..n
      BY <1>1
    <3> QED
      BY <2>2, <3>1, <3>2, <3>3, <3>4 DEF u
  <2> HIDE DEF new
  <2>7. a \in State
    <3>1. new # <<>>
      BY <1>1, <2>6
    <3> QED
      BY <2>1, <2>6, <3>1 DEF State
  <2>8. \A k \in Nat \ {0} :
          GroupAt(new, k) = IF k = n + 1 THEN Updated(GroupAt(gs, k), line) ELSE GroupAt(gs, k)
    BY <1>1, <2>6 DEF GroupAt
  <2>9. a.groups = new /\ a.starting = TRUE
    BY <2>1
  <2> QED
    BY <1>4, <2>6, <2>7, <2>8, <2>9
<1>5. CASE line.key # "user-agent" /\ n = 0
  <2>1. a = [groups |-> <<>>, starting |-> FALSE]
    BY <1>2, <1>5 DEF ParseLine
  <2>2. <<>> \in Seq(Group)
    OBVIOUS
  <2>3. a \in State
    BY <2>1, <2>2 DEF State
  <2>4. a.groups = gs /\ a.starting = FALSE
    BY <1>2, <1>5, <2>1
  <2>5. \A k \in Nat \ {0} : k # n
    BY <1>5
  <2> QED
    BY <1>5, <2>3, <2>4, <2>5
<1>6. CASE line.key # "user-agent" /\ n # 0
  <2> DEFINE new == [gs EXCEPT ![n] = Extended(gs[n], line)]
  <2>1. a = [groups |-> new, starting |-> FALSE]
    BY <1>2, <1>6 DEF ParseLine
  <2>2. n \in 1..n
    BY <1>1, <1>6
  <2>3. Updated(gs[n], line) = Extended(gs[n], line)
    BY <1>6 DEF Updated
  <2>4. Updated(gs[n], line) \in Group
    BY <1>1, <2>2, UpdatedType
  <2>5. new = [gs EXCEPT ![n] = Updated(gs[n], line)]
    BY <2>3
  <2>6. /\ new \in Seq(Group) /\ Len(new) = n
        /\ \A k \in 1..n : new[k] = IF k = n THEN Updated(gs[n], line) ELSE gs[k]
    <3> HIDE DEF n, gs, new
    <3> DEFINE u == Updated(gs[n], line)
               w == [gs EXCEPT ![n] = u]
    <3>1. gs \in Seq(Group) /\ n \in 1..Len(gs) /\ u \in Group /\ Len(gs) = n
      BY <1>1, <2>2, <2>4 DEF n
    <3>2. new = w
      BY <2>5
    <3>a. w = [gs EXCEPT ![n] = u]
      OBVIOUS
    <3> HIDE DEF u, w
    <3>3. w \in Seq(Group) /\ Len(w) = Len(gs)
          /\ \A k \in 1..Len(gs) : w[k] = IF k = n THEN u ELSE gs[k]
      BY <3>1, <3>a, Replaced
    <3> QED
      BY <3>1, <3>2, <3>3 DEF u
  <2> HIDE DEF new
  <2>7. a \in State
    <3>1. new # <<>>
      BY <2>2, <2>6
    <3> QED
      BY <2>1, <2>6, <3>1 DEF State
  <2>8. \A k \in Nat \ {0} :
          GroupAt(new, k) = IF k = n THEN Updated(GroupAt(gs, k), line) ELSE GroupAt(gs, k)
    BY <1>1, <2>2, <2>6 DEF GroupAt
  <2>9. a.groups = new /\ a.starting = FALSE
    BY <2>1
  <2> QED
    BY <1>6, <2>6, <2>7, <2>8, <2>9
<1> QED
  BY <1>3, <1>4, <1>5, <1>6

-----------------------------------------------------------------------------
(***************************************************************************)
(* The three loops compute what their rounds say                           *)
(***************************************************************************)

\* parse, line by line.
LEMMA ReadingIs ==
  ASSUME NEW file \in Seq(Line)
  PROVE  /\ Reading(file) \in [0..Len(file) -> State]
         /\ Reading(file)[0] = Start
         /\ \A n \in 1..Len(file) : Reading(file)[n] = ParseLine(Reading(file)[n - 1], file[n])
<1> DEFINE len == Len(file)
           f == Reading(file)
           body(g) == [n \in 0..len |-> IF n = 0 THEN Start ELSE ParseLine(g[n - 1], file[n])]
           rounds == [n \in 1..len |-> [s \in State |-> ParseLine(s, file[n])]]
<1>1. len \in Nat /\ \A n \in 1..len : file[n] \in Line
  OBVIOUS
<1>2. Start \in State
  BY DEF Start, State
<1>3. rounds \in [1..len -> [State -> State]]
  BY <1>1, LineDoes
<1>a. Steps(State, len, rounds)
  BY <1>1, <1>3 DEF Steps
<1>b. PICK h : Looped(State, Start, len, rounds, h)
  <2> HIDE DEF rounds, len, body, f
  <2> QED
    BY <1>2, <1>a, Recursion, Zenon
<1>4. h \in [0..len -> State] /\ h[0] = Start /\ \A n \in 1..len : h[n] = rounds[n][h[n - 1]]
  <2> HIDE DEF rounds, len, body, f
  <2> QED
    BY <1>b DEF Looped
<1>5. \A n \in 1..len : n - 1 \in 0..len /\ n # 0 /\ n \in 0..len
  BY <1>1
<1>6. \A n \in 1..len : h[n] = ParseLine(h[n - 1], file[n])
  BY <1>4, <1>5
<1>7. h = body(h)
  <2>1. \A n \in 0..len : n = 0 \/ n \in 1..len
    BY <1>1
  <2>2. \A n \in 0..len : h[n] = IF n = 0 THEN Start ELSE ParseLine(h[n - 1], file[n])
    BY <1>4, <1>6, <2>1
  <2> HIDE DEF len
  <2> QED
    BY <1>4, <2>2
<1>8. f = CHOOSE g : g = body(g)
  BY DEF Reading, Rounds, Start
<1>9. f = body(f)
  <2> HIDE DEF f, body
  <2> QED
    BY <1>7, <1>8
<1>10. f[0] = Start /\ DOMAIN f = 0..len /\ \A n \in 1..len : f[n] = ParseLine(f[n - 1], file[n])
  <2>1. 0 \in 0..len
    BY <1>1
  <2> HIDE DEF f, len
  <2> QED
    BY <1>5, <1>9, <2>1
<1>c. f = [n \in 0..len |-> f[n]]
  <2> DEFINE c == body(f)
  <2>1. c = [n \in 0..len |-> c[n]]
    OBVIOUS
  <2> HIDE DEF f, body
  <2> QED
    BY <1>9, <2>1
<1>11. \A n \in 1..len : f[n - 1] \in State => f[n] = rounds[n][f[n - 1]]
  <2> HIDE DEF f
  <2> QED
    BY <1>10
<1>12. Looped(State, Start, len, rounds, f)
  <2> HIDE DEF f, rounds, body, len
  <2>1. f[0] = Start
    BY <1>10
  <2> QED
    BY <1>2, <1>a, <1>c, <1>11, <2>1, Settled, Zenon
<1>13. f \in [0..len -> State]
  <2> HIDE DEF f, rounds, body, len
  <2> QED
    BY <1>12 DEF Looped
<1> QED
  <2> HIDE DEF rounds, body
  <2> QED
    BY <1>10, <1>13

LEMMA BetterType ==
  ASSUME NEW g \in Group, NEW h \in Group
  PROVE  Better(g, h) \in Group
BY DEF Better

\* group_for, group by group.
LEMMA BestIs ==
  ASSUME NEW groups \in Seq(Group)
  PROVE  /\ Best(groups) \in [0..Len(groups) -> Group]
         /\ Best(groups)[0] = NewGroup
         /\ \A n \in 1..Len(groups) : Best(groups)[n] = Better(Best(groups)[n - 1], groups[n])
<1> DEFINE len == Len(groups)
           f == Best(groups)
           body(g) == [n \in 0..len |-> IF n = 0 THEN NewGroup ELSE Better(g[n - 1], groups[n])]
           rounds == [n \in 1..len |-> [s \in Group |-> Better(s, groups[n])]]
<1>1. len \in Nat /\ \A n \in 1..len : groups[n] \in Group
  OBVIOUS
<1>2. NewGroup \in Group
  BY NewGroupType
<1>3. rounds \in [1..len -> [Group -> Group]]
  BY <1>1, BetterType
<1>a. Steps(Group, len, rounds)
  BY <1>1, <1>3 DEF Steps
<1>b. PICK h : Looped(Group, NewGroup, len, rounds, h)
  <2> HIDE DEF rounds, len, body, f
  <2> QED
    BY <1>2, <1>a, Recursion, Zenon
<1>4. h \in [0..len -> Group] /\ h[0] = NewGroup /\ \A n \in 1..len : h[n] = rounds[n][h[n - 1]]
  <2> HIDE DEF rounds, len, body, f
  <2> QED
    BY <1>b DEF Looped
<1>5. \A n \in 1..len : n - 1 \in 0..len /\ n # 0 /\ n \in 0..len
  BY <1>1
<1>6. \A n \in 1..len : h[n] = Better(h[n - 1], groups[n])
  BY <1>4, <1>5
<1>7. h = body(h)
  <2>1. \A n \in 0..len : n = 0 \/ n \in 1..len
    BY <1>1
  <2>2. \A n \in 0..len : h[n] = IF n = 0 THEN NewGroup ELSE Better(h[n - 1], groups[n])
    BY <1>4, <1>6, <2>1
  <2> HIDE DEF len
  <2> QED
    BY <1>4, <2>2
<1>8. f = CHOOSE g : g = body(g)
  BY DEF Best, Rounds
<1>9. f = body(f)
  <2> HIDE DEF f, body
  <2> QED
    BY <1>7, <1>8
<1>10. f[0] = NewGroup /\ DOMAIN f = 0..len /\ \A n \in 1..len : f[n] = Better(f[n - 1], groups[n])
  <2>1. 0 \in 0..len
    BY <1>1
  <2> HIDE DEF f, len
  <2> QED
    BY <1>5, <1>9, <2>1
<1>c. f = [n \in 0..len |-> f[n]]
  <2> DEFINE c == body(f)
  <2>1. c = [n \in 0..len |-> c[n]]
    OBVIOUS
  <2> HIDE DEF f, body
  <2> QED
    BY <1>9, <2>1
<1>11. \A n \in 1..len : f[n - 1] \in Group => f[n] = rounds[n][f[n - 1]]
  <2> HIDE DEF f
  <2> QED
    BY <1>10
<1>12. Looped(Group, NewGroup, len, rounds, f)
  <2> HIDE DEF f, rounds, body, len
  <2>1. f[0] = NewGroup
    BY <1>10
  <2> QED
    BY <1>2, <1>a, <1>c, <1>11, <2>1, Settled, Zenon
<1>13. f \in [0..len -> Group]
  <2> HIDE DEF f, rounds, body, len
  <2> QED
    BY <1>12 DEF Looped
<1> QED
  <2> HIDE DEF rounds, body
  <2> QED
    BY <1>10, <1>13

\* The rule that is left after one more.
Stronger(path, winner, rule) ==
  IF Matches(rule.pattern, path) /\ Wins(rule, winner) THEN rule ELSE winner

LEMMA StrongerType ==
  ASSUME NEW path, NEW g \in Rules, NEW h \in Rules
  PROVE  Stronger(path, g, h) \in Rules
BY DEF Stronger

\* can_fetch, rule by rule.
LEMMA WinnersAre ==
  ASSUME NEW lines \in Seq(Rules), NEW path
  PROVE  /\ Winners(lines, path) \in [0..Len(lines) -> Rules]
         /\ Winners(lines, path)[0] = Allow(<<>>)
         /\ \A n \in 1..Len(lines) : Winners(lines, path)[n] = Stronger(path, Winners(lines, path)[n - 1], lines[n])
<1> DEFINE len == Len(lines)
           f == Winners(lines, path)
           body(g) == [n \in 0..len |-> IF n = 0 THEN Allow(<<>>) ELSE Stronger(path, g[n - 1], lines[n])]
           rounds == [n \in 1..len |-> [s \in Rules |-> Stronger(path, s, lines[n])]]
<1>1. len \in Nat /\ \A n \in 1..len : lines[n] \in Rules
  OBVIOUS
<1>2. Allow(<<>>) \in Rules
  BY DEF Allow, Rules
<1>3. rounds \in [1..len -> [Rules -> Rules]]
  BY <1>1, StrongerType
<1>a. Steps(Rules, len, rounds)
  BY <1>1, <1>3 DEF Steps
<1>b. PICK h : Looped(Rules, Allow(<<>>), len, rounds, h)
  <2> HIDE DEF rounds, len, body, f
  <2> QED
    BY <1>2, <1>a, Recursion, Zenon
<1>4. h \in [0..len -> Rules] /\ h[0] = Allow(<<>>) /\ \A n \in 1..len : h[n] = rounds[n][h[n - 1]]
  <2> HIDE DEF rounds, len, body, f
  <2> QED
    BY <1>b DEF Looped
<1>5. \A n \in 1..len : n - 1 \in 0..len /\ n # 0 /\ n \in 0..len
  BY <1>1
<1>6. \A n \in 1..len : h[n] = Stronger(path, h[n - 1], lines[n])
  BY <1>4, <1>5
<1>7. h = body(h)
  <2>1. \A n \in 0..len : n = 0 \/ n \in 1..len
    BY <1>1
  <2>2. \A n \in 0..len : h[n] = IF n = 0 THEN Allow(<<>>) ELSE Stronger(path, h[n - 1], lines[n])
    BY <1>4, <1>6, <2>1
  <2> HIDE DEF len
  <2> QED
    BY <1>4, <2>2
<1>8. f = CHOOSE g : g = body(g)
  BY DEF Winners, Rounds, Stronger
<1>9. f = body(f)
  <2> HIDE DEF f, body
  <2> QED
    BY <1>7, <1>8
<1>10. f[0] = Allow(<<>>) /\ DOMAIN f = 0..len /\ \A n \in 1..len : f[n] = Stronger(path, f[n - 1], lines[n])
  <2>1. 0 \in 0..len
    BY <1>1
  <2> HIDE DEF f, len
  <2> QED
    BY <1>5, <1>9, <2>1
<1>c. f = [n \in 0..len |-> f[n]]
  <2> DEFINE c == body(f)
  <2>1. c = [n \in 0..len |-> c[n]]
    OBVIOUS
  <2> HIDE DEF f, body
  <2> QED
    BY <1>9, <2>1
<1>11. \A n \in 1..len : f[n - 1] \in Rules => f[n] = rounds[n][f[n - 1]]
  <2> HIDE DEF f
  <2> QED
    BY <1>10
<1>12. Looped(Rules, Allow(<<>>), len, rounds, f)
  <2> HIDE DEF f, rounds, body, len
  <2>1. f[0] = Allow(<<>>)
    BY <1>10
  <2> QED
    BY <1>2, <1>a, <1>c, <1>11, <2>1, Settled, Zenon
<1>13. f \in [0..len -> Rules]
  <2> HIDE DEF f, rounds, body, len
  <2> QED
    BY <1>12 DEF Looped
<1> QED
  <2> HIDE DEF rounds, body
  <2> QED
    BY <1>10, <1>13

-----------------------------------------------------------------------------
(***************************************************************************)
(* What the groups hold: each the lines read while it was the last one     *)
(***************************************************************************)

\* The group that line n fell in, and whether the line opened it.
At(file, n) == Len(Reading(file)[n].groups)
Opens(file, n) == IsAgent(file, n) /\ ~IsAgent(file, n - 1)

\* The lines of group k among the first n, by what they are for.
AgentsOf(file, k, n) == {i \in 1..n : At(file, i) = k /\ IsAgent(file, i)}
RulesOf(file, k, n) ==
  {i \in 1..n : At(file, i) = k /\ file[i].key = "rule" /\ file[i].pattern # <<>>}
DelaysOf(file, k, n) == {i \in 1..n : At(file, i) = k /\ file[i].key = "crawl-delay"}

RulesIn(group) == {group.rules[j] : j \in 1..Len(group.rules)}

\* A group has the tokens and the rules of its lines, and the last of their delays.
Keeps(file, k, n, group) ==
  /\ group \in Group
  /\ group.tokens = {file[i].token : i \in AgentsOf(file, k, n)}
  /\ RulesIn(group) = {file[i] : i \in RulesOf(file, k, n)}
  /\ DelaysOf(file, k, n) = {} => group.delay = 0
  /\ \A i \in DelaysOf(file, k, n) :
       (\A j \in DelaysOf(file, k, n) : j <= i) => group.delay = file[i].delay

\* One more line, in terms of groups.
LEMMA NextLine ==
  ASSUME NEW file \in Seq(Line), NEW n \in 1..Len(file)
  PROVE  /\ At(file, n) = IF Opens(file, n) THEN At(file, n - 1) + 1 ELSE At(file, n - 1)
         /\ At(file, n) \in Nat
         /\ \A k \in Nat \ {0} :
              GroupAt(Reading(file)[n].groups, k)
                = IF k = At(file, n)
                  THEN Updated(GroupAt(Reading(file)[n - 1].groups, k), file[n])
                  ELSE GroupAt(Reading(file)[n - 1].groups, k)
<1> DEFINE R == Reading(file)
           s == R[n - 1]
<1>1. /\ n - 1 \in 0..Len(file) /\ n \in 0..Len(file) /\ n \in DOMAIN file
      /\ file[n] \in Line /\ n - 1 # n
  OBVIOUS
<1>2. R[n - 1] \in State /\ R[n] \in State /\ R[n] = ParseLine(s, file[n])
  BY <1>1, ReadingIs
<1>3. s.starting = IsAgent(file, n - 1)
  <2>1. CASE n = 1
    <3>1. R[0] = Start /\ n - 1 = 0 /\ 0 \notin DOMAIN file
      BY <2>1, ReadingIs
    <3>2. s.starting = FALSE
      BY <3>1 DEF Start
    <3>3. IsAgent(file, n - 1) = FALSE
      BY <3>1 DEF IsAgent
    <3> QED
      BY <3>2, <3>3
  <2>2. CASE n # 1
    <3>1. /\ n - 1 \in 1..Len(file) /\ n - 1 - 1 \in 0..Len(file)
          /\ n - 1 \in DOMAIN file /\ file[n - 1] \in Line
      BY <2>2
    <3>2. R[n - 1] = ParseLine(R[n - 1 - 1], file[n - 1]) /\ R[n - 1 - 1] \in State
      BY <3>1, ReadingIs
    <3>3. R[n - 1].starting = (file[n - 1].key = "user-agent")
      <4> DEFINE t == R[n - 1 - 1]
                 l == file[n - 1]
      <4>1. t \in State /\ l \in Line
        BY <3>1, <3>2
      <4> HIDE DEF t, l
      <4>2. ParseLine(t, l).starting = (l.key = "user-agent")
        BY <4>1, LineDoes
      <4> QED
        BY <3>2, <4>2 DEF t, l
    <3>4. IsAgent(file, n - 1) = (file[n - 1].key = "user-agent")
      BY <3>1 DEF IsAgent
    <3> QED
      BY <3>3, <3>4
  <2> QED
    BY <2>1, <2>2
<1>4. IsAgent(file, n) = (file[n].key = "user-agent")
  BY <1>1 DEF IsAgent
<1> DEFINE l == file[n]
<1> HIDE DEF s, l
<1>5. s \in State /\ l \in Line
  BY <1>1, <1>2 DEF s, l
<1>6. /\ Len(ParseLine(s, l).groups)
           = IF l.key = "user-agent" /\ ~s.starting THEN Len(s.groups) + 1 ELSE Len(s.groups)
      /\ \A k \in Nat \ {0} :
           GroupAt(ParseLine(s, l).groups, k)
             = IF k = Len(ParseLine(s, l).groups) THEN Updated(GroupAt(s.groups, k), l)
               ELSE GroupAt(s.groups, k)
  BY <1>5, LineDoes
<1>7. R[n] = ParseLine(s, l)
  BY <1>2 DEF l
<1>8. At(file, n) = Len(R[n].groups) /\ At(file, n - 1) = Len(s.groups)
  BY DEF At, s
<1>9. Opens(file, n) <=> l.key = "user-agent" /\ ~s.starting
  BY <1>3, <1>4 DEF Opens, l
<1>10. At(file, n) \in Nat
  BY <1>2, <1>8 DEF State
<1> HIDE DEF R
<1>11. At(file, n) = IF Opens(file, n) THEN At(file, n - 1) + 1 ELSE At(file, n - 1)
  BY <1>6, <1>7, <1>8, <1>9
<1>12. \A k \in Nat \ {0} :
         GroupAt(R[n].groups, k) = IF k = At(file, n) THEN Updated(GroupAt(s.groups, k), l)
                                   ELSE GroupAt(s.groups, k)
  BY <1>6, <1>7, <1>8
<1> QED
  BY <1>10, <1>11, <1>12 DEF R, s, l

LEMMA NoLine ==
  ASSUME NEW file \in Seq(Line)
  PROVE  /\ At(file, 0) = 0
         /\ \A k \in Nat \ {0} : GroupAt(Reading(file)[0].groups, k) = NewGroup
<1>1. Reading(file)[0] = Start
  BY ReadingIs
<1> QED
  BY <1>1 DEF Start, At, GroupAt

LEMMA OneMore ==
  ASSUME NEW file \in Seq(Line), NEW n \in 1..Len(file), NEW k
  PROVE  /\ AgentsOf(file, k, n)
              = IF At(file, n) = k /\ file[n].key = "user-agent"
                THEN AgentsOf(file, k, n - 1) \cup {n} ELSE AgentsOf(file, k, n - 1)
         /\ RulesOf(file, k, n)
              = IF At(file, n) = k /\ file[n].key = "rule" /\ file[n].pattern # <<>>
                THEN RulesOf(file, k, n - 1) \cup {n} ELSE RulesOf(file, k, n - 1)
         /\ DelaysOf(file, k, n)
              = IF At(file, n) = k /\ file[n].key = "crawl-delay"
                THEN DelaysOf(file, k, n - 1) \cup {n} ELSE DelaysOf(file, k, n - 1)
<1>1. \A i : i \in 1..n <=> i \in 1..(n - 1) \/ i = n
  OBVIOUS
<1>2. IsAgent(file, n) <=> file[n].key = "user-agent"
  BY DEF IsAgent
<1>3. AgentsOf(file, k, n)
        = IF At(file, n) = k /\ file[n].key = "user-agent"
          THEN AgentsOf(file, k, n - 1) \cup {n} ELSE AgentsOf(file, k, n - 1)
  BY <1>1, <1>2, Zenon DEF AgentsOf
<1>4. RulesOf(file, k, n)
        = IF At(file, n) = k /\ file[n].key = "rule" /\ file[n].pattern # <<>>
          THEN RulesOf(file, k, n - 1) \cup {n} ELSE RulesOf(file, k, n - 1)
  BY <1>1, Zenon DEF RulesOf
<1>5. DelaysOf(file, k, n)
        = IF At(file, n) = k /\ file[n].key = "crawl-delay"
          THEN DelaysOf(file, k, n - 1) \cup {n} ELSE DelaysOf(file, k, n - 1)
  BY <1>1, Zenon DEF DelaysOf
<1> QED
  BY <1>3, <1>4, <1>5

\* A line that falls in the group changes it as Updated does.
LEMMA Kept ==
  ASSUME NEW file \in Seq(Line), NEW n \in 1..Len(file), NEW k,
         NEW g, Keeps(file, k, n - 1, g),
         NEW h, h = IF k = At(file, n) THEN Updated(g, file[n]) ELSE g
  PROVE  Keeps(file, k, n, h)
<1> DEFINE l == file[n]
           As == AgentsOf(file, k, n - 1)
           Rs == RulesOf(file, k, n - 1)
           Ds == DelaysOf(file, k, n - 1)
           As2 == AgentsOf(file, k, n)
           Rs2 == RulesOf(file, k, n)
           Ds2 == DelaysOf(file, k, n)
<1>1. /\ g \in Group
      /\ g.tokens = {file[i].token : i \in As}
      /\ RulesIn(g) = {file[i] : i \in Rs}
      /\ Ds = {} => g.delay = 0
      /\ \A i \in Ds : (\A j \in Ds : j <= i) => g.delay = file[i].delay
  BY DEF Keeps
<1>2. l \in Line
  OBVIOUS
<1>3. /\ As2 = IF At(file, n) = k /\ l.key = "user-agent" THEN As \cup {n} ELSE As
      /\ Rs2 = IF At(file, n) = k /\ l.key = "rule" /\ l.pattern # <<>> THEN Rs \cup {n} ELSE Rs
      /\ Ds2 = IF At(file, n) = k /\ l.key = "crawl-delay" THEN Ds \cup {n} ELSE Ds
  BY OneMore
<1>4. n \in Nat /\ \A i \in Ds : i \in Nat /\ ~(n <= i)
  BY DEF DelaysOf
<1> SUFFICES /\ h \in Group
             /\ h.tokens = {file[i].token : i \in As2}
             /\ RulesIn(h) = {file[i] : i \in Rs2}
             /\ Ds2 = {} => h.delay = 0
             /\ \A i \in Ds2 : (\A j \in Ds2 : j <= i) => h.delay = file[i].delay
  BY Zenon DEF Keeps
<1>5. h = (IF k = At(file, n) THEN Updated(g, l) ELSE g) /\ l = file[n]
  OBVIOUS
<1> HIDE DEF l, As, Rs, Ds, As2, Rs2, Ds2
<1>6. h \in Group
  BY <1>1, <1>2, <1>5, UpdatedType
<1>7. CASE k # At(file, n) \/ (l.key # "user-agent" /\ Updated(g, l) = g
                              /\ l.key # "crawl-delay"
                              /\ ~(l.key = "rule" /\ l.pattern # <<>>))
  <2>1. h = g /\ As2 = As /\ Rs2 = Rs /\ Ds2 = Ds
    BY <1>3, <1>5, <1>7
  <2> QED
    BY <1>1, <2>1
<1>8. CASE k = At(file, n) /\ l.key = "user-agent"
  <2>1. h = [g EXCEPT !.tokens = @ \cup {l.token}]
    BY <1>5, <1>8 DEF Updated
  <2>2. As2 = As \cup {n} /\ Rs2 = Rs /\ Ds2 = Ds
    BY <1>3, <1>8
  <2>3. h.tokens = g.tokens \cup {l.token} /\ h.rules = g.rules /\ h.delay = g.delay
    BY <1>1, <2>1 DEF Group
  <2>4. h.tokens = {file[i].token : i \in As2}
    BY <1>1, <1>5, <2>2, <2>3
  <2>5. RulesIn(h) = RulesIn(g)
    BY <2>3 DEF RulesIn
  <2> QED
    BY <1>1, <1>6, <2>2, <2>3, <2>4, <2>5
<1>9. CASE k = At(file, n) /\ l.key = "rule" /\ l.pattern # <<>>
  <2>1. h = [g EXCEPT !.rules = Append(@, l)]
    BY <1>5, <1>9 DEF Updated, Extended
  <2>2. As2 = As /\ Rs2 = Rs \cup {n} /\ Ds2 = Ds
    BY <1>3, <1>9
  <2>3. h.tokens = g.tokens /\ h.rules = Append(g.rules, l) /\ h.delay = g.delay
    BY <1>1, <2>1 DEF Group
  <2>4. RulesIn(h) = RulesIn(g) \cup {l}
    <3> DEFINE q == g.rules
               w == Append(q, l)
    <3>1. q \in Seq(Rules) /\ l \in Rules
      BY <1>1, <1>2, <1>9, LineTypes DEF Group
    <3> HIDE DEF q
    <3>2. /\ Len(w) = Len(q) + 1 /\ w[Len(q) + 1] = l /\ Len(q) \in Nat
          /\ \A i \in 1..Len(q) : w[i] = q[i]
      BY <3>1
    <3>3. \A i : i \in 1..(Len(q) + 1) <=> i \in 1..Len(q) \/ i = Len(q) + 1
      BY <3>2
    <3> HIDE DEF w
    <3>4. {w[i] : i \in 1..Len(w)} = {q[i] : i \in 1..Len(q)} \cup {l}
      BY <3>2, <3>3
    <3> QED
      BY <2>3, <3>4 DEF RulesIn, q, w
  <2>5. RulesIn(h) = {file[i] : i \in Rs2}
    BY <1>1, <1>5, <2>2, <2>4
  <2> QED
    BY <1>1, <1>6, <2>2, <2>3, <2>5
<1>10. CASE k = At(file, n) /\ l.key = "crawl-delay"
  <2>1. h = [g EXCEPT !.delay = l.delay]
    BY <1>5, <1>10 DEF Updated, Extended
  <2>2. As2 = As /\ Rs2 = Rs /\ Ds2 = Ds \cup {n}
    BY <1>3, <1>10
  <2>3. h.tokens = g.tokens /\ h.rules = g.rules /\ h.delay = l.delay
    BY <1>1, <2>1 DEF Group
  <2>4. RulesIn(h) = RulesIn(g)
    BY <2>3 DEF RulesIn
  <2>5. ASSUME NEW i \in Ds2, \A j \in Ds2 : j <= i PROVE h.delay = file[i].delay
    <3>1. n <= i
      BY <2>2, <2>5
    <3>2. i = n
      BY <1>4, <2>2, <3>1
    <3> QED
      BY <1>5, <2>3, <3>2
  <2> QED
    BY <1>1, <1>6, <2>2, <2>3, <2>4, <2>5
<1> QED
  <2>1. l.key \in {"user-agent", "rule", "crawl-delay", "other"}
    BY <1>2, LineTypes
  <2>2. /\ l.key # "user-agent" /\ l.key # "crawl-delay" /\ ~(l.key = "rule" /\ l.pattern # <<>>)
        => Updated(g, l) = g
    BY DEF Updated, Extended
  <2> QED
    BY <1>7, <1>8, <1>9, <1>10, <2>1, <2>2

LEMMA GroupsKeep ==
  ASSUME NEW file \in Seq(Line), NEW k \in Nat \ {0}
  PROVE  \A n \in 0..Len(file) : Keeps(file, k, n, GroupAt(Reading(file)[n].groups, k))
<1> DEFINE G(n) == GroupAt(Reading(file)[n].groups, k)
           T == {n \in 0..Len(file) : Keeps(file, k, n, G(n))}
<1>1. 0 \in T
  <2>1. AgentsOf(file, k, 0) = {} /\ RulesOf(file, k, 0) = {} /\ DelaysOf(file, k, 0) = {}
    BY DEF AgentsOf, RulesOf, DelaysOf
  <2>2. G(0) = NewGroup
    BY NoLine
  <2>3. NewGroup.tokens = {} /\ RulesIn(NewGroup) = {} /\ NewGroup.delay = 0
    BY DEF NewGroup, RulesIn
  <2>4. Keeps(file, k, 0, NewGroup)
    BY <2>1, <2>3, NewGroupType DEF Keeps
  <2> QED
    BY <2>2, <2>4
<1>2. ASSUME NEW n \in 0..(Len(file) - 1), n \in T PROVE n + 1 \in T
  <2>1. PICK m \in 1..Len(file) : m = n + 1 /\ m - 1 = n /\ m \in 0..Len(file)
    OBVIOUS
  <2>2. G(m) = IF k = At(file, m) THEN Updated(G(m - 1), file[m]) ELSE G(m - 1)
    BY NextLine
  <2>3. Keeps(file, k, m - 1, G(m - 1))
    BY <1>2, <2>1
  <2> HIDE DEF G
  <2>4. Keeps(file, k, m, G(m))
    BY <2>2, <2>3, Kept
  <2> QED
    BY <2>1, <2>4
<1>3. Inductive(T, Len(file))
  BY <1>1, <1>2 DEF Inductive
<1>4. \A n \in 0..Len(file) : n \in T
  <2> HIDE DEF T
  <2> QED
    BY <1>3, Induction, Zenon
<1> QED
  BY <1>4

-----------------------------------------------------------------------------
(***************************************************************************)
(* Groups and runs of User-agent lines: the k-th group is the k-th run     *)
(***************************************************************************)

LEMMA AtType ==
  ASSUME NEW file \in Seq(Line), NEW n \in 0..Len(file)
  PROVE  At(file, n) \in Nat
<1>1. n = 0 \/ n \in 1..Len(file)
  OBVIOUS
<1> QED
  BY <1>1, NoLine, NextLine

\* Groups are only ever added.
LEMMA AtGrows ==
  ASSUME NEW file \in Seq(Line), NEW j \in 0..Len(file), NEW i \in 0..j
  PROVE  At(file, i) <= At(file, j)
<1> DEFINE T == {n \in 0..Len(file) : n < i \/ At(file, i) <= At(file, n)}
<1>1. i \in 0..Len(file) /\ i \in Nat /\ Len(file) \in Nat
  OBVIOUS
<1>2. 0 \in T
  BY <1>1, AtType
<1>3. ASSUME NEW n \in 0..(Len(file) - 1), n \in T PROVE n + 1 \in T
  <2>1. PICK m \in 1..Len(file) : m = n + 1 /\ m - 1 = n /\ m \in 0..Len(file)
    OBVIOUS
  <2>2. At(file, m) = IF Opens(file, m) THEN At(file, n) + 1 ELSE At(file, n)
    BY <2>1, NextLine
  <2>3. At(file, m) \in Nat /\ At(file, n) \in Nat /\ At(file, i) \in Nat
    BY <1>1, <2>1, AtType
  <2>4. m < i \/ At(file, i) <= At(file, m)
    BY <1>1, <1>3, <2>1, <2>2, <2>3
  <2> QED
    BY <2>1, <2>4
<1>4. Inductive(T, Len(file))
  BY <1>1, <1>2, <1>3 DEF Inductive
<1>5. \A n \in 0..Len(file) : n \in T
  <2> HIDE DEF T
  <2> QED
    BY <1>4, Induction, Zenon
<1> QED
  BY <1>1, <1>5

\* Where one is opened on the way, the line is in a later one.
LEMMA AtOpened ==
  ASSUME NEW file \in Seq(Line), NEW j \in 0..Len(file), NEW i \in 0..j,
         NEW m \in (i + 1)..j, Opens(file, m)
  PROVE  At(file, i) < At(file, j)
<1>1. m \in 1..Len(file) /\ m - 1 \in 0..Len(file) /\ i \in 0..(m - 1) /\ m \in 0..j
      /\ i \in 0..Len(file) /\ m \in 0..Len(file)
  OBVIOUS
<1>2. At(file, i) <= At(file, m - 1) /\ At(file, m) <= At(file, j)
  BY <1>1, AtGrows
<1>3. At(file, m) = At(file, m - 1) + 1
  BY <1>1, NextLine
<1>4. /\ At(file, i) \in Nat /\ At(file, m - 1) \in Nat /\ At(file, m) \in Nat
      /\ At(file, j) \in Nat
  BY <1>1, AtType
<1> QED
  BY <1>2, <1>3, <1>4

\* Where none is, it is in the same.
LEMMA AtStays ==
  ASSUME NEW file \in Seq(Line), NEW j \in 0..Len(file), NEW i \in 0..j,
         \A m \in (i + 1)..j : ~Opens(file, m)
  PROVE  At(file, i) = At(file, j)
<1> DEFINE T == {n \in 0..j : n < i \/ At(file, i) = At(file, n)}
<1>1. i \in 0..Len(file) /\ i \in Nat /\ j \in Nat /\ Len(file) \in Nat
  OBVIOUS
<1>2. 0 \in T
  BY <1>1
<1>3. ASSUME NEW n \in 0..(j - 1), n \in T PROVE n + 1 \in T
  <2>1. PICK m \in 1..Len(file) : m = n + 1 /\ m - 1 = n /\ m \in 0..j
    BY <1>1
  <2>2. At(file, m) = IF Opens(file, m) THEN At(file, n) + 1 ELSE At(file, n)
    BY <2>1, NextLine
  <2>3. m < i \/ m = i \/ m \in (i + 1)..j
    BY <1>1, <2>1
  <2>4. m < i \/ At(file, i) = At(file, m)
    <3>1. CASE m \in (i + 1)..j
      <4>1. ~Opens(file, m) /\ ~(n < i)
        BY <1>1, <2>1, <3>1
      <4> QED
        BY <1>3, <2>2, <4>1
    <3> QED
      BY <2>3, <3>1
  <2> QED
    BY <2>1, <2>4
<1>4. Inductive(T, j)
  BY <1>1, <1>2, <1>3 DEF Inductive
<1>5. \A n \in 0..j : n \in T
  <2> HIDE DEF T
  <2> QED
    BY <1>4, Induction, Zenon
<1>6. j \in T /\ ~(j < i)
  BY <1>1, <1>5
<1> QED
  BY <1>6

\* Between a line that names no agent and one that does, a group is opened.
LEMMA OpenedBetween ==
  ASSUME NEW file, NEW i \in Nat, NEW j \in Nat, i < j,
         ~IsAgent(file, i), IsAgent(file, j)
  PROVE  \E m \in (i + 1)..j : Opens(file, m)
<1> DEFINE T == {m \in (i + 1)..j : IsAgent(file, m)}
<1>1. T \in SUBSET Nat /\ j \in T
  OBVIOUS
<1>2. PICK m \in T : \A n \in T : m <= n
  BY <1>1, Least
<1>3. m \in (i + 1)..j /\ IsAgent(file, m)
  BY <1>2
<1>4. ~IsAgent(file, m - 1)
  <2>1. CASE m - 1 = i
    BY <2>1
  <2>2. CASE m - 1 # i
    <3>1. m - 1 \in (i + 1)..j /\ ~(m <= m - 1)
      BY <1>3, <2>2
    <3> QED
      BY <1>2, <3>1
  <2> QED
    BY <2>1, <2>2
<1> QED
  BY <1>3, <1>4 DEF Opens

\* What a run of User-agent lines is.
LEMMA RunIs ==
  ASSUME NEW file \in Seq(Line), NEW r \in Runs(file)
  PROVE  /\ r[1] \in 1..Len(file) /\ r[2] \in 1..Len(file) /\ r[1] <= r[2]
         /\ r = <<r[1], r[2]>>
         /\ Opens(file, r[1]) /\ ~IsAgent(file, r[2] + 1)
         /\ \A i \in r[1]..r[2] : IsAgent(file, i)
         /\ At(file, r[1]) \in Nat \ {0}
<1>1. /\ r[1] \in 1..Len(file) /\ r[2] \in 1..Len(file) /\ r[1] <= r[2]
      /\ r = <<r[1], r[2]>>
  BY DEF Runs
<1>2. /\ ~IsAgent(file, r[1] - 1) /\ ~IsAgent(file, r[2] + 1)
      /\ \A i \in r[1]..r[2] : IsAgent(file, i)
  BY DEF Runs
<1>3. Opens(file, r[1])
  <2>1. r[1] \in r[1]..r[2]
    BY <1>1
  <2> QED
    BY <1>2, <2>1 DEF Opens
<1>4. At(file, r[1]) \in Nat \ {0}
  <2>1. r[1] - 1 \in 0..Len(file) /\ r[1] \in 0..Len(file)
    BY <1>1
  <2>2. At(file, r[1] - 1) \in Nat /\ At(file, r[1]) = At(file, r[1] - 1) + 1
    BY <1>1, <1>3, <2>1, AtType, NextLine
  <2> QED
    BY <2>2
<1> QED
  BY <1>1, <1>2, <1>3, <1>4

\* The agents of its group are the lines of the run.
LEMMA RunAgents ==
  ASSUME NEW file \in Seq(Line), NEW r \in Runs(file), NEW i \in 1..Len(file)
  PROVE  IsAgent(file, i) /\ At(file, i) = At(file, r[1]) <=> i \in r[1]..r[2]
<1> DEFINE a == r[1]
           b == r[2]
<1>1. /\ a \in 1..Len(file) /\ b \in 1..Len(file) /\ a <= b
      /\ Opens(file, a) /\ ~IsAgent(file, b + 1)
      /\ \A j \in a..b : IsAgent(file, j)
  BY RunIs
<1> HIDE DEF a, b
<1>2. ASSUME i \in a..b PROVE IsAgent(file, i) /\ At(file, i) = At(file, a)
  <2>1. IsAgent(file, i)
    BY <1>1, <1>2
  <2>2. ASSUME NEW m \in (a + 1)..i PROVE ~Opens(file, m)
    <3>1. m - 1 \in a..b
      BY <1>1, <1>2
    <3> QED
      BY <1>1, <3>1 DEF Opens
  <2>3. i \in 0..Len(file) /\ a \in 0..i
    BY <1>1, <1>2
  <2>4. At(file, a) = At(file, i)
    BY <2>2, <2>3, AtStays
  <2> QED
    BY <2>1, <2>4
<1>3. ASSUME i < a PROVE At(file, i) # At(file, a)
  <2>1. a \in 0..Len(file) /\ i \in 0..a /\ a \in (i + 1)..a /\ i \in 0..Len(file)
    BY <1>1, <1>3
  <2>2. At(file, i) < At(file, a) /\ At(file, i) \in Nat /\ At(file, a) \in Nat
    BY <1>1, <2>1, AtOpened, AtType
  <2> QED
    BY <2>2
<1>4. ASSUME b < i, IsAgent(file, i) PROVE At(file, i) # At(file, a)
  <2>1. b + 1 \in Nat /\ i \in Nat /\ b + 1 < i
    <3>1. i # b + 1
      BY <1>1, <1>4
    <3> QED
      BY <1>1, <1>4, <3>1
  <2>2. PICK m \in (b + 1 + 1)..i : Opens(file, m)
    <3> DEFINE c == b + 1
    <3>1. c \in Nat /\ c < i /\ i \in Nat /\ ~IsAgent(file, c) /\ IsAgent(file, i)
      BY <1>1, <1>4, <2>1
    <3> HIDE DEF c
    <3>2. \E m \in (c + 1)..i : Opens(file, m)
      BY <3>1, OpenedBetween
    <3> QED
      BY <3>2 DEF c
  <2>3. /\ m \in (a + 1)..i /\ a \in 0..i /\ i \in 0..Len(file) /\ a \in 0..Len(file)
    BY <1>1, <1>4, <2>1
  <2>4. At(file, a) < At(file, i) /\ At(file, i) \in Nat /\ At(file, a) \in Nat
    BY <2>2, <2>3, AtOpened, AtType
  <2> QED
    BY <2>4
<1>5. i < a \/ i \in a..b \/ b < i
  BY <1>1
<1> QED
  BY <1>2, <1>3, <1>4, <1>5 DEF a, b

\* What binds whoever a run addresses: the other lines of its group.
LEMMA RunBinds ==
  ASSUME NEW file \in Seq(Line), NEW r \in Runs(file), NEW i \in 1..Len(file)
  PROVE  i > r[2] /\ (\A j \in r[2] + 1..i : ~IsAgent(file, j))
           <=> ~IsAgent(file, i) /\ At(file, i) = At(file, r[1])
<1> DEFINE a == r[1]
           b == r[2]
<1>1. /\ a \in 1..Len(file) /\ b \in 1..Len(file) /\ a <= b
      /\ Opens(file, a) /\ ~IsAgent(file, b + 1)
      /\ \A j \in a..b : IsAgent(file, j)
  BY RunIs
<1>2. \A j \in 1..Len(file) :
        IsAgent(file, j) /\ At(file, j) = At(file, a) <=> j \in a..b
  BY RunAgents
<1> HIDE DEF a, b
<1>3. ASSUME i > b, \A j \in (b + 1)..i : ~IsAgent(file, j)
      PROVE  ~IsAgent(file, i) /\ At(file, i) = At(file, a)
  <2>1. i \in (b + 1)..i /\ b \in 0..i /\ i \in 0..Len(file) /\ b \in a..b
    BY <1>1, <1>3
  <2>2. \A m \in (b + 1)..i : ~Opens(file, m)
    BY <1>3 DEF Opens
  <2>3. At(file, b) = At(file, i)
    BY <2>1, <2>2, AtStays
  <2>4. At(file, b) = At(file, a)
    BY <1>1, <1>2, <2>1
  <2> QED
    BY <1>3, <2>1, <2>3, <2>4
<1>4. ASSUME ~IsAgent(file, i), At(file, i) = At(file, a)
      PROVE  i > b /\ \A j \in (b + 1)..i : ~IsAgent(file, j)
  <2>1. ~(i < a)
    <3> SUFFICES ASSUME i < a PROVE FALSE
      OBVIOUS
    <3>1. a \in 0..Len(file) /\ i \in 0..a /\ a \in (i + 1)..a /\ i \in 0..Len(file)
      BY <1>1
    <3>2. At(file, i) < At(file, a) /\ At(file, i) \in Nat /\ At(file, a) \in Nat
      BY <1>1, <3>1, AtOpened, AtType
    <3> QED
      BY <1>4, <3>2
  <2>2. i \notin a..b
    BY <1>1, <1>4
  <2>3. i > b
    BY <1>1, <2>1, <2>2
  <2>4. ASSUME NEW j \in (b + 1)..i PROVE ~IsAgent(file, j)
    <3>1. /\ j \in 1..Len(file) /\ j \in 0..Len(file) /\ i \in 0..Len(file)
          /\ j \in 0..i /\ a \in 0..j /\ a \in 0..Len(file) /\ j \notin a..b
      BY <1>1, <2>3
    <3>2. At(file, a) <= At(file, j) /\ At(file, j) <= At(file, i)
      BY <3>1, AtGrows
    <3>3. At(file, a) \in Nat /\ At(file, j) \in Nat
      BY <3>1, AtType
    <3>4. At(file, j) = At(file, a)
      BY <1>4, <3>2, <3>3
    <3> QED
      BY <1>2, <3>1, <3>4
  <2> QED
    BY <2>3, <2>4
<1> QED
  BY <1>3, <1>4 DEF a, b

\* Later runs are later groups.
LEMMA RunsInOrder ==
  ASSUME NEW file \in Seq(Line), NEW r \in Runs(file), NEW q \in Runs(file)
  PROVE  /\ r[1] < q[1] <=> At(file, r[1]) < At(file, q[1])
         /\ At(file, r[1]) = At(file, q[1]) => r = q
<1>1. ASSUME NEW s \in Runs(file), NEW t \in Runs(file), s[1] < t[1]
      PROVE  At(file, s[1]) < At(file, t[1])
  <2>1. /\ s[1] \in 1..Len(file) /\ t[1] \in 1..Len(file) /\ Opens(file, t[1])
    BY RunIs
  <2>2. t[1] \in 0..Len(file) /\ s[1] \in 0..t[1] /\ t[1] \in (s[1] + 1)..t[1]
    BY <1>1, <2>1
  <2> QED
    BY <2>1, <2>2, AtOpened
<1>2. /\ r[1] \in Nat /\ q[1] \in Nat /\ r[2] \in 1..Len(file) /\ q[2] \in 1..Len(file)
      /\ r = <<r[1], r[2]>> /\ q = <<q[1], q[2]>> /\ r[1] <= r[2] /\ q[1] <= q[2]
      /\ r[1] \in 1..Len(file) /\ q[1] \in 1..Len(file)
      /\ At(file, r[1]) \in Nat /\ At(file, q[1]) \in Nat
  BY RunIs
<1>3. r[1] < q[1] \/ q[1] < r[1] \/ r[1] = q[1]
  BY <1>2
<1>4. r[1] < q[1] => At(file, r[1]) < At(file, q[1])
  BY <1>1
<1>5. q[1] < r[1] => At(file, q[1]) < At(file, r[1])
  BY <1>1
<1>6. r[1] < q[1] <=> At(file, r[1]) < At(file, q[1])
  BY <1>2, <1>3, <1>4, <1>5
<1>7. ASSUME At(file, r[1]) = At(file, q[1]) PROVE r = q
  <2>1. r[1] = q[1]
    BY <1>2, <1>3, <1>4, <1>5, <1>7
  <2>2. \A i \in 1..Len(file) : i \in r[1]..r[2] <=> i \in q[1]..q[2]
    BY <1>7, RunAgents
  <2>3. r[2] \in r[1]..r[2] /\ q[2] \in q[1]..q[2]
    BY <1>2
  <2>4. r[2] \in q[1]..q[2] /\ q[2] \in r[1]..r[2]
    BY <1>2, <2>2, <2>3
  <2>5. r[2] = q[2]
    BY <1>2, <2>4
  <2> QED
    BY <1>2, <2>1, <2>5
<1> QED
  BY <1>6, <1>7

\* Every group was opened by some line, and that line begins a run.
LEMMA RunOfGroup ==
  ASSUME NEW file \in Seq(Line), NEW k \in 1..At(file, Len(file))
  PROVE  \E r \in Runs(file) : At(file, r[1]) = k
<1> DEFINE T == {n \in 0..Len(file) : \A c \in 1..At(file, n) :
                   \E m \in 1..n : Opens(file, m) /\ At(file, m) = c}
<1>1. Len(file) \in Nat
  OBVIOUS
<1>2. 0 \in T
  <2>1. At(file, 0) = 0
    BY NoLine
  <2> QED
    BY <1>1, <2>1
<1>3. ASSUME NEW n \in 0..(Len(file) - 1), n \in T PROVE n + 1 \in T
  <2>1. PICK m \in 1..Len(file) : m = n + 1 /\ m - 1 = n /\ m \in 0..Len(file)
    OBVIOUS
  <2>2. At(file, m) = IF Opens(file, m) THEN At(file, n) + 1 ELSE At(file, n)
    BY <2>1, NextLine
  <2>3. At(file, n) \in Nat
    BY <2>1, AtType
  <2>4. ASSUME NEW c \in 1..At(file, m)
        PROVE  \E p \in 1..m : Opens(file, p) /\ At(file, p) = c
    <3>1. CASE c \in 1..At(file, n)
      <4>1. PICK p \in 1..n : Opens(file, p) /\ At(file, p) = c
        BY <1>3, <3>1
      <4>2. p \in 1..m
        BY <2>1
      <4> QED
        BY <4>1, <4>2
    <3>2. CASE c \notin 1..At(file, n)
      <4>1. Opens(file, m) /\ At(file, m) = c
        BY <2>2, <2>3, <3>2
      <4>2. m \in 1..m
        OBVIOUS
      <4> QED
        BY <4>1, <4>2
    <3> QED
      BY <3>1, <3>2
  <2>5. m \in T
    BY <2>1, <2>4
  <2> HIDE DEF T
  <2> QED
    BY <2>1, <2>5
<1>4. Inductive(T, Len(file))
  BY <1>1, <1>2, <1>3 DEF Inductive
<1>5. \A n \in 0..Len(file) : n \in T
  <2> HIDE DEF T
  <2> QED
    BY <1>4, Induction, Zenon
<1>6. PICK m \in 1..Len(file) : Opens(file, m) /\ At(file, m) = k
  <2>1. Len(file) \in T
    BY <1>1, <1>5
  <2> QED
    BY <2>1
<1> DEFINE U == {n \in Nat : n > m /\ ~IsAgent(file, n)}
<1>7. Len(file) + 1 \in U /\ U \in SUBSET Nat
  BY DEF IsAgent
<1>8. PICK e \in U : \A n \in U : e <= n
  BY <1>7, Least
<1>9. e \in Nat /\ e > m /\ ~IsAgent(file, e) /\ e <= Len(file) + 1
  BY <1>7, <1>8
<1>10. ASSUME NEW i \in m..(e - 1) PROVE IsAgent(file, i)
  <2>1. CASE i = m
    BY <1>6, <2>1 DEF Opens
  <2>2. CASE i # m
    <3>1. i \in Nat /\ i > m /\ ~(e <= i)
      BY <1>9, <2>2
    <3> QED
      BY <1>8, <3>1
  <2> QED
    BY <2>1, <2>2
<1> DEFINE r == <<m, e - 1>>
<1> HIDE DEF U
<1>11. /\ m \in DOMAIN file /\ e - 1 \in DOMAIN file /\ m <= e - 1
       /\ ~IsAgent(file, m - 1) /\ e - 1 + 1 = e
  BY <1>1, <1>6, <1>9 DEF Opens
<1>12. r \in Runs(file)
  BY <1>9, <1>10, <1>11 DEF Runs
<1> QED
  BY <1>6, <1>12

\* The longest of finitely many tokens has a length.
LEMMA LongestIs ==
  ASSUME NEW file \in Seq(Line), NEW I \in SUBSET (1..Len(file)),
         NEW group, group.tokens = {file[i].token : i \in I}
  PROVE  LongestToken(group) \in Nat
<1> DEFINE J == {i \in I : file[i].token \in Ours}
           f == [i \in J |-> TokenLen[file[i].token]]
           V == {0} \cup {TokenLen[t] : t \in group.tokens \cap Ours}
           W == {f[i] : i \in J}
<1>1. IsFiniteSet(J)
  <2>1. IsFiniteSet(1..Len(file))
    <3>1. 1 \in Int /\ Len(file) \in Int
      OBVIOUS
    <3> QED
      BY <3>1, FS_Interval, Zenon
  <2>a. J \in SUBSET (1..Len(file))
    OBVIOUS
  <2> HIDE DEF J
  <2> QED
    BY <2>1, <2>a, FS_Subset, Zenon
<1>2. \A i \in J : f[i] \in Nat
  BY TokensAssumption
<1>3. f \in [J -> W] /\ \A y \in W : \E i \in J : f[i] = y
  OBVIOUS
<1>4. IsFiniteSet(W)
  <2> HIDE DEF f, W, J
  <2>1. f \in Surjection(J, W)
    BY <1>3 DEF Surjection
  <2> QED
    BY <1>1, <2>1, FS_Surjection, Zenon
<1>5. V = {0} \cup W
  <2>1. {TokenLen[t] : t \in group.tokens \cap Ours} = {TokenLen[file[i].token] : i \in J}
    OBVIOUS
  <2>2. W = {TokenLen[file[i].token] : i \in J}
    OBVIOUS
  <2> QED
    BY <2>1, <2>2
<1>6. V \in SUBSET Nat /\ V # {} /\ IsFiniteSet(V)
  <2>1. IsFiniteSet({0} \cup W)
    <3>1. {0} \cup W = W \cup {0}
      OBVIOUS
    <3> HIDE DEF W
    <3> QED
      BY <1>4, <3>1, FS_AddElement
  <2>2. W \in SUBSET Nat
    BY <1>2
  <2> HIDE DEF V, W
  <2> QED
    BY <1>5, <2>1, <2>2
<1>7. Max(V) \in V
  <2> HIDE DEF V
  <2> QED
    BY <1>6, MaxOfFinite
<1> QED
  BY <1>6, <1>7 DEF LongestToken

\* The tokens of its group are those of the run, so its rank is theirs.
LEMMA RankIs ==
  ASSUME NEW file \in Seq(Line), NEW r \in Runs(file)
  PROVE  LET group == GroupAt(Parse(file), At(file, r[1]))
         IN  /\ group.tokens = {file[i].token : i \in r[1]..r[2]}
             /\ LongestToken(group) = Rank(file, r)
             /\ Rank(file, r) \in Nat
<1> DEFINE k == At(file, r[1])
           group == GroupAt(Parse(file), k)
<1>1. /\ k \in Nat \ {0} /\ Len(file) \in 0..Len(file)
      /\ r[1] \in 1..Len(file) /\ r[2] \in 1..Len(file)
  BY RunIs
<1> HIDE DEF k
<1>2. Keeps(file, k, Len(file), group)
  BY <1>1, GroupsKeep DEF Parse
<1>3. group.tokens = {file[i].token : i \in AgentsOf(file, k, Len(file))}
  BY <1>2 DEF Keeps
<1>4. AgentsOf(file, k, Len(file)) = r[1]..r[2]
  <2>1. \A i \in 1..Len(file) : IsAgent(file, i) /\ At(file, i) = k <=> i \in r[1]..r[2]
    BY RunAgents DEF k
  <2>2. r[1]..r[2] \subseteq 1..Len(file)
    BY <1>1
  <2> QED
    BY <2>1, <2>2 DEF AgentsOf
<1>5. group.tokens = {file[i].token : i \in r[1]..r[2]}
  BY <1>3, <1>4
<1> HIDE DEF group
<1>6. LongestToken(group) = Rank(file, r)
  <2>1. group.tokens \cap Ours = Ours \cap {file[i].token : i \in r[1]..r[2]}
    BY <1>5
  <2> QED
    BY <2>1 DEF LongestToken, Rank
<1>7. LongestToken(group) \in Nat
  <2> DEFINE I == r[1]..r[2]
  <2>1. I \in SUBSET (1..Len(file))
    BY <1>1
  <2> HIDE DEF I
  <2>2. group.tokens = {file[i].token : i \in I}
    BY <1>5 DEF I
  <2> QED
    BY <2>1, <2>2, LongestIs
<1> QED
  BY <1>5, <1>6, <1>7 DEF group, k

-----------------------------------------------------------------------------
(***************************************************************************)
(* group_for finds the group of the run that speaks to us                  *)
(***************************************************************************)

LEMMA NobodysToken == LongestToken(NewGroup) = 0
<1>1. {0} \cup {TokenLen[t] : t \in NewGroup.tokens \cap Ours} = {0}
  BY DEF NewGroup
<1>2. Max({0}) = 0
  BY DEF Max
<1> QED
  BY <1>1, <1>2 DEF LongestToken

\* Of the first n groups, k is the first with the longest token that is ours.
Leads(groups, k, n) ==
  /\ LongestToken(groups[k]) > 0
  /\ \A j \in 1..n : LongestToken(groups[j]) <= LongestToken(groups[k])
  /\ \A j \in 1..n : j < k => LongestToken(groups[j]) < LongestToken(groups[k])
NoneOurs(groups, n) == \A j \in 1..n : LongestToken(groups[j]) = 0

LEMMA BestLeads ==
  ASSUME NEW groups \in Seq(Group),
         \A k \in 1..Len(groups) : LongestToken(groups[k]) \in Nat
  PROVE  \A n \in 0..Len(groups) :
           \/ NoneOurs(groups, n) /\ Best(groups)[n] = NewGroup
           \/ \E k \in 1..n : Leads(groups, k, n) /\ Best(groups)[n] = groups[k]
<1> DEFINE B == Best(groups)
           P(n) == \/ NoneOurs(groups, n) /\ B[n] = NewGroup
                   \/ \E k \in 1..n : Leads(groups, k, n) /\ B[n] = groups[k]
           T == {n \in 0..Len(groups) : P(n)}
<1>1. Len(groups) \in Nat
  OBVIOUS
<1>2. 0 \in T
  <2>1. B[0] = NewGroup
    BY BestIs
  <2> QED
    BY <1>1, <2>1 DEF NoneOurs
<1>3. ASSUME NEW n \in 0..(Len(groups) - 1), P(n) PROVE P(n + 1)
  <2>1. PICK m \in 1..Len(groups) : m = n + 1 /\ m - 1 = n
    BY <1>1
  <2>2. B[m] = Better(B[n], groups[m])
    BY <2>1, BestIs
  <2>3. \A j \in 1..m : j \in 1..n \/ j = m
    BY <2>1
  <2>4. \A j \in 1..m : LongestToken(groups[j]) \in Nat
    BY <2>1
  <2>5. \A j \in 1..n : j \in 1..m /\ j < m /\ j # m
    BY <2>1
  <2>6. m \in 1..m
    BY <2>1
  <2>9. ASSUME NEW k \in 1..m, Leads(groups, k, m), B[m] = groups[k] PROVE P(m)
    <3> HIDE DEF B
    <3> QED
      BY <2>9
  <2>a. ASSUME LongestToken(groups[m]) > 0,
               \A j \in 1..m : j # m => LongestToken(groups[j]) < LongestToken(groups[m])
        PROVE  Leads(groups, m, m)
    <3>1. \A j \in 1..m : LongestToken(groups[j]) <= LongestToken(groups[m])
      BY <2>4, <2>6, <2>a
    <3>2. \A j \in 1..m : j < m => j # m
      OBVIOUS
    <3> QED
      BY <2>a, <3>1, <3>2 DEF Leads
  <2>7. ASSUME NoneOurs(groups, n), B[n] = NewGroup PROVE P(m)
    <3>1. CASE LongestToken(groups[m]) = 0
      <4>1. B[m] = NewGroup
        BY <2>2, <2>7, <3>1, NobodysToken DEF Better
      <4>2. NoneOurs(groups, m)
        BY <2>3, <2>7, <3>1 DEF NoneOurs
      <4> QED
        BY <4>1, <4>2
    <3>2. CASE LongestToken(groups[m]) > 0
      <4>1. B[m] = groups[m]
        BY <2>2, <2>7, <3>2, NobodysToken DEF Better
      <4>2. \A j \in 1..m : j # m => LongestToken(groups[j]) < LongestToken(groups[m])
        BY <2>3, <2>7, <3>2 DEF NoneOurs
      <4>3. Leads(groups, m, m)
        BY <2>a, <3>2, <4>2
      <4> QED
        BY <2>6, <2>9, <4>1, <4>3
    <3> QED
      BY <2>4, <2>6, <3>1, <3>2
  <2>8. ASSUME NEW k \in 1..n, Leads(groups, k, n), B[n] = groups[k] PROVE P(m)
    <3>1. CASE LongestToken(groups[m]) > LongestToken(groups[k])
      <4>1. B[m] = groups[m]
        BY <2>2, <2>8, <3>1 DEF Better
      <4>2. k \in 1..m /\ k # m
        BY <2>5
      <4>3. ASSUME NEW j \in 1..m, j # m
            PROVE  LongestToken(groups[j]) < LongestToken(groups[m])
        <5>1. j \in 1..n
          BY <2>3, <4>3
        <5>2. LongestToken(groups[j]) <= LongestToken(groups[k])
          BY <2>8, <5>1 DEF Leads
        <5>3. /\ LongestToken(groups[j]) \in Nat /\ LongestToken(groups[k]) \in Nat
              /\ LongestToken(groups[m]) \in Nat
          BY <2>4, <2>6, <4>2
        <5> QED
          BY <3>1, <5>2, <5>3
      <4>4. LongestToken(groups[m]) > 0
        <5>1. LongestToken(groups[k]) \in Nat /\ LongestToken(groups[m]) \in Nat
          BY <2>4, <2>6, <4>2
        <5> QED
          BY <3>1, <5>1
      <4>5. Leads(groups, m, m)
        BY <2>a, <4>3, <4>4
      <4> QED
        BY <2>6, <2>9, <4>1, <4>5
    <3>2. CASE ~(LongestToken(groups[m]) > LongestToken(groups[k]))
      <4>1. B[m] = groups[k]
        BY <2>2, <2>8, <3>2 DEF Better
      <4>2. k \in 1..m /\ k < m
        BY <2>5
      <4>3. LongestToken(groups[m]) \in Nat /\ LongestToken(groups[k]) \in Nat
        BY <2>4, <2>6, <4>2
      <4>4. LongestToken(groups[m]) <= LongestToken(groups[k])
        BY <3>2, <4>3
      <4>5. \A j \in 1..m : j < k => j \in 1..n
        BY <2>3, <4>2
      <4>6. Leads(groups, k, m)
        BY <2>3, <2>8, <4>4, <4>5 DEF Leads
      <4> QED
        BY <2>5, <2>9, <4>1, <4>6
    <3> QED
      BY <3>1, <3>2
  <2> HIDE DEF B
  <2> QED
    BY <1>3, <2>1, <2>7, <2>8
<1>4. Inductive(T, Len(groups))
  <2> HIDE DEF P
  <2>1. \A n \in 0..(Len(groups) - 1) : n \in T => n + 1 \in T
    BY <1>1, <1>3
  <2> QED
    BY <1>1, <1>2, <2>1 DEF Inductive
<1>5. \A n \in 0..Len(groups) : n \in T
  <2> HIDE DEF T
  <2> QED
    BY <1>4, Induction, Zenon
<1> QED
  BY <1>5

LEMMA MaxIs ==
  ASSUME NEW S \in SUBSET Nat, NEW x \in S, \A y \in S : y <= x
  PROVE  Max(S) = x
<1>1. \E z \in S : \A y \in S : z >= y
  OBVIOUS
<1>2. Max(S) \in S /\ \A y \in S : Max(S) >= y
  BY <1>1, Zenon DEF Max
<1> DEFINE z == Max(S)
<1>3. z \in Nat /\ x \in Nat /\ z >= x /\ z <= x
  BY <1>2
<1> HIDE DEF z
<1>4. z = x
  BY <1>3
<1> QED
  BY <1>4 DEF z

\* The groups and the runs, one for one, with their ranks and wildcards.
LEMMA GroupsAndRuns ==
  ASSUME NEW file \in Seq(Line)
  PROVE  LET groups == Parse(file)
         IN  /\ groups \in Seq(Group)
             /\ \A k \in 1..Len(groups) :
                  /\ LongestToken(groups[k]) \in Nat
                  /\ \E r \in Runs(file) : At(file, r[1]) = k
             /\ \A r \in Runs(file) :
                  /\ At(file, r[1]) \in 1..Len(groups)
                  /\ Rank(file, r) = LongestToken(groups[At(file, r[1])])
                  /\ "*" \in groups[At(file, r[1])].tokens
                       <=> \E i \in r[1]..r[2] : file[i].token = "*"
<1> DEFINE groups == Parse(file)
           M == Len(groups)
<1>1. Len(file) \in Nat /\ Len(file) \in 0..Len(file)
  OBVIOUS
<1>2. groups \in Seq(Group)
  BY <1>1, ReadingIs DEF Parse, State
<1>3. M = At(file, Len(file))
  BY DEF Parse, At
<1>4. ASSUME NEW r \in Runs(file)
      PROVE  At(file, r[1]) \in 1..M
  <2>1. r[1] \in 1..Len(file) /\ At(file, r[1]) \in Nat \ {0}
    BY RunIs
  <2>2. r[1] \in 0..Len(file)
    BY <2>1
  <2>3. At(file, r[1]) <= At(file, Len(file)) /\ At(file, Len(file)) \in Nat
    BY <1>1, <2>2, AtGrows, AtType
  <2> QED
    BY <1>3, <2>1, <2>3
<1> HIDE DEF groups, M
<1>5. ASSUME NEW r \in Runs(file)
      PROVE  /\ Rank(file, r) = LongestToken(groups[At(file, r[1])])
             /\ Rank(file, r) \in Nat
             /\ groups[At(file, r[1])].tokens = {file[i].token : i \in r[1]..r[2]}
  <2>1. GroupAt(groups, At(file, r[1])) = groups[At(file, r[1])]
    BY <1>4 DEF GroupAt, M
  <2> QED
    BY <2>1, RankIs DEF groups
<1>6. ASSUME NEW k \in 1..M
      PROVE  LongestToken(groups[k]) \in Nat /\ \E r \in Runs(file) : At(file, r[1]) = k
  <2>1. PICK r \in Runs(file) : At(file, r[1]) = k
    BY <1>3, RunOfGroup
  <2> QED
    BY <1>5, <2>1
<1>7. ASSUME NEW r \in Runs(file)
      PROVE  "*" \in groups[At(file, r[1])].tokens <=> \E i \in r[1]..r[2] : file[i].token = "*"
  <2> DEFINE I == r[1]..r[2]
             tokens == groups[At(file, r[1])].tokens
  <2>1. tokens = {file[i].token : i \in I}
    BY <1>5
  <2> HIDE DEF I, tokens
  <2>2. "*" \in tokens <=> \E i \in I : file[i].token = "*"
    BY <2>1
  <2> QED
    BY <2>2 DEF I, tokens
<1> QED
  BY <1>2, <1>4, <1>5, <1>6, <1>7 DEF groups, M

\* The first of some runs is the one with the first group.
LEMMA FirstRun ==
  ASSUME NEW file \in Seq(Line), NEW C \in SUBSET Runs(file), NEW r \in C,
         \A q \in C : At(file, r[1]) <= At(file, q[1])
  PROVE  {x \in C : \A q \in C : x[1] <= q[1]} = {r}
<1>1. \A q \in C : q[1] \in Nat /\ At(file, q[1]) \in Nat
  BY RunIs
<1>2. ASSUME NEW q \in C PROVE r[1] <= q[1]
  <2>1. ~(q[1] < r[1])
    BY <1>1, RunsInOrder
  <2> QED
    BY <1>1, <2>1
<1>3. ASSUME NEW x \in C, \A q \in C : x[1] <= q[1] PROVE x = r
  <2>1. ~(r[1] < x[1])
    BY <1>1, <1>3
  <2>2. ~(At(file, r[1]) < At(file, x[1]))
    BY <2>1, RunsInOrder
  <2>3. At(file, r[1]) = At(file, x[1])
    BY <1>1, <2>2
  <2> QED
    BY <2>3, RunsInOrder
<1> QED
  BY <1>2, <1>3

LEMMA BindingIs ==
  ASSUME NEW file \in Seq(Line), NEW r \in Runs(file), Addressed(file) = {r}
  PROVE  Binding(file) = {i \in 1..Len(file) : At(file, i) = At(file, r[1]) /\ ~IsAgent(file, i)}
<1>1. DOMAIN file = 1..Len(file)
  OBVIOUS
<1>2. Binding(file) = {i \in 1..Len(file) : i > r[2] /\ \A j \in r[2] + 1..i : ~IsAgent(file, j)}
  BY <1>1 DEF Binding
<1> QED
  BY <1>2, RunBinds

Bound(file, k) == {i \in 1..Len(file) : At(file, i) = k /\ ~IsAgent(file, i)}

\* A file without a group for us is read like one with an empty one.
LEMMA Selected ==
  ASSUME NEW file \in Seq(Line)
  PROVE  \E k \in Nat \ {0} : /\ GroupFor(Parse(file)) = GroupAt(Parse(file), k)
                              /\ Binding(file) = Bound(file, k)
<1> DEFINE groups == Parse(file)
           M == Len(groups)
           ranks == {0} \cup {Rank(file, r) : r \in Runs(file)}
           top == Max(ranks)
           named == {r \in Runs(file) : top > 0 /\ Rank(file, r) = top}
           wild == {r \in Runs(file) : \E i \in r[1]..r[2] : file[i].token = "*"}
           wildcards == {k \in DOMAIN groups : "*" \in groups[k].tokens}
           C == IF named # {} THEN named ELSE wild
<1>1. /\ groups \in Seq(Group) /\ M \in Nat
      /\ \A k \in 1..M : LongestToken(groups[k]) \in Nat
      /\ \A k \in 1..M : \E r \in Runs(file) : At(file, r[1]) = k
  BY GroupsAndRuns
<1>2. \A r \in Runs(file) :
        /\ At(file, r[1]) \in 1..M
        /\ Rank(file, r) = LongestToken(groups[At(file, r[1])])
        /\ "*" \in groups[At(file, r[1])].tokens
             <=> \E i \in r[1]..r[2] : file[i].token = "*"
  BY GroupsAndRuns
<1>3. Addressed(file) = {x \in C : \A q \in C : x[1] <= q[1]}
  BY DEF Addressed
<1>4. GroupFor(groups)
        = IF Best(groups)[M] # NewGroup THEN Best(groups)[M]
          ELSE IF wildcards # {} THEN groups[Min(wildcards)] ELSE NewGroup
  BY DEF GroupFor
<1>5. C \in SUBSET Runs(file)
  OBVIOUS
<1> HIDE DEF groups, M
<1>6. ranks \in SUBSET Nat
  BY <1>1, <1>2
<1>7. ASSUME NEW k \in 1..M, NEW r \in C, At(file, r[1]) = k,
             GroupFor(groups) = groups[k],
             \A q \in C : k <= At(file, q[1])
      PROVE  /\ k \in Nat \ {0}
             /\ GroupFor(groups) = GroupAt(groups, k)
             /\ Binding(file) = Bound(file, k)
  <2> HIDE DEF C
  <2>1. Addressed(file) = {r} /\ r \in Runs(file)
    BY <1>3, <1>5, <1>7, FirstRun
  <2>2. Binding(file) = Bound(file, k)
    BY <1>7, <2>1, BindingIs DEF Bound
  <2>3. GroupAt(groups, k) = groups[k] /\ k \in Nat \ {0}
    BY <1>7 DEF GroupAt, M
  <2> QED
    BY <1>7, <2>2, <2>3
<1>8. ASSUME NEW k \in 1..M, Leads(groups, k, M), Best(groups)[M] = groups[k]
      PROVE  \E c \in Nat \ {0} : /\ GroupFor(groups) = GroupAt(groups, c)
                                  /\ Binding(file) = Bound(file, c)
  <2>1. GroupFor(groups) = groups[k]
    <3>1. groups[k] # NewGroup
      BY <1>8, NobodysToken DEF Leads
    <3> HIDE DEF wildcards
    <3> QED
      BY <1>4, <1>8, <3>1
  <2>2. PICK r \in Runs(file) : At(file, r[1]) = k
    BY <1>1
  <2>3. ASSUME NEW q \in Runs(file) PROVE Rank(file, q) <= Rank(file, r)
    BY <1>2, <1>8, <2>2 DEF Leads
  <2>4. Rank(file, r) \in Nat /\ Rank(file, r) > 0
    BY <1>1, <1>2, <1>8, <2>2 DEF Leads
  <2>5. top = Rank(file, r)
    <3>1. Rank(file, r) \in ranks
      OBVIOUS
    <3>2. \A y \in ranks : y <= Rank(file, r)
      BY <2>3, <2>4
    <3> HIDE DEF ranks
    <3> QED
      BY <1>6, <3>1, <3>2, MaxIs
  <2> HIDE DEF top
  <2>6. C = named /\ r \in C
    BY <2>4, <2>5
  <2>7. ASSUME NEW q \in C PROVE k <= At(file, q[1])
    <3>1. q \in Runs(file) /\ Rank(file, q) = Rank(file, r)
      BY <2>5, <2>6
    <3>2. At(file, q[1]) \in 1..M
      BY <1>2, <3>1
    <3>3. LongestToken(groups[At(file, q[1])]) = LongestToken(groups[k])
      BY <1>2, <2>2, <3>1
    <3>4. ~(At(file, q[1]) < k)
      <4>1. At(file, q[1]) < k =>
              LongestToken(groups[At(file, q[1])]) < LongestToken(groups[k])
        BY <1>8, <3>2 DEF Leads
      <4>2. LongestToken(groups[k]) \in Nat
        BY <1>1
      <4> QED
        BY <3>3, <4>1, <4>2
    <3> QED
      BY <1>1, <3>2, <3>4
  <2> HIDE DEF C
  <2> QED
    BY <1>7, <2>1, <2>2, <2>6, <2>7
<1>9. ASSUME NoneOurs(groups, M), Best(groups)[M] = NewGroup
      PROVE  \E c \in Nat \ {0} : /\ GroupFor(groups) = GroupAt(groups, c)
                                  /\ Binding(file) = Bound(file, c)
  <2>1. ranks = {0}
    BY <1>2, <1>9 DEF NoneOurs
  <2>2. top = 0
    <3> HIDE DEF ranks
    <3>1. 0 \in ranks /\ \A y \in ranks : y <= 0
      BY <2>1
    <3> QED
      BY <1>6, <3>1, MaxIs
  <2> HIDE DEF top
  <2>3. C = wild
    BY <2>2
  <2>4. DOMAIN groups = 1..M
    BY <1>1 DEF M
  <2>5. \A r \in Runs(file) : r \in wild <=> At(file, r[1]) \in wildcards
    BY <1>2, <2>4
  <2>6. CASE wildcards # {}
    <3> DEFINE k == Min(wildcards)
    <3>1. wildcards \in SUBSET Nat
      BY <2>4
    <3>2. k \in wildcards /\ \A c \in wildcards : k <= c
      <4> HIDE DEF wildcards
      <4> QED
        BY <2>6, <3>1, MinOfSome
    <3>3. k \in 1..M
      BY <2>4, <3>2
    <3>4. GroupFor(groups) = groups[k]
      <4> HIDE DEF wildcards
      <4> QED
        BY <1>4, <1>9, <2>6
    <3> HIDE DEF k
    <3>5. PICK r \in Runs(file) : At(file, r[1]) = k
      BY <1>1, <3>3
    <3>6. r \in C
      <4> HIDE DEF C, wild, wildcards
      <4> QED
        BY <2>3, <2>5, <3>2, <3>5
    <3>7. \A q \in C : k <= At(file, q[1])
      <4> HIDE DEF C, wildcards
      <4> QED
        BY <2>3, <2>5, <3>2
    <3> HIDE DEF C, wildcards
    <3> QED
      BY <1>7, <3>3, <3>4, <3>5, <3>6, <3>7
  <2>7. CASE wildcards = {}
    <3>1. GroupFor(groups) = NewGroup
      <4> HIDE DEF wildcards
      <4> QED
        BY <1>4, <1>9, <2>7
    <3>2. Binding(file) = {}
      <4>1. C = {}
        <5> HIDE DEF wildcards
        <5> QED
          BY <2>3, <2>5, <2>7
      <4>2. Addressed(file) = {}
        BY <1>3, <4>1
      <4> QED
        BY <4>2 DEF Binding
    <3>3. ASSUME NEW i \in 1..Len(file) PROVE At(file, i) # M + 1
      <4>1. i \in 0..Len(file) /\ Len(file) \in 0..Len(file)
        OBVIOUS
      <4>2. At(file, i) <= At(file, Len(file)) /\ At(file, i) \in Nat
        BY <4>1, AtGrows, AtType
      <4>3. At(file, Len(file)) = M
        BY DEF At, Parse, groups, M
      <4> QED
        BY <1>1, <4>2, <4>3
    <3>4. Bound(file, M + 1) = {}
      BY <3>3 DEF Bound
    <3>5. M + 1 \in Nat \ {0} /\ GroupAt(groups, M + 1) = NewGroup
      BY <1>1 DEF GroupAt, M
    <3> QED
      BY <3>1, <3>2, <3>4, <3>5
  <2> QED
    BY <2>6, <2>7
<1>10. \/ NoneOurs(groups, M) /\ Best(groups)[M] = NewGroup
       \/ \E k \in 1..M : Leads(groups, k, M) /\ Best(groups)[M] = groups[k]
  <2>1. M \in 0..M
    BY <1>1
  <2> QED
    BY <1>1, <2>1, BestLeads DEF M
<1> QED
  BY <1>8, <1>9, <1>10 DEF groups

-----------------------------------------------------------------------------
(***************************************************************************)
(* can_fetch decides as the rules of the group do                          *)
(***************************************************************************)

\* Of the first n rules, w fits the path, none that fits is longer, and none of
\* its length allows what it does not.
Strongest(lines, path, w, n) ==
  /\ Matches(lines[w].pattern, path)
  /\ \A i \in 1..n : Matches(lines[i].pattern, path) =>
       /\ Len(lines[i].pattern) <= Len(lines[w].pattern)
       /\ Len(lines[i].pattern) = Len(lines[w].pattern) /\ lines[i].allow => lines[w].allow
NoneFits(lines, path, n) == \A i \in 1..n : ~Matches(lines[i].pattern, path)

LEMMA WinnerIsStrongest ==
  ASSUME NEW lines \in Seq(Rules), NEW path, \A i \in 1..Len(lines) : lines[i].pattern # <<>>
  PROVE  \A n \in 0..Len(lines) :
           \/ NoneFits(lines, path, n) /\ Winners(lines, path)[n] = Allow(<<>>)
           \/ \E w \in 1..n : /\ Strongest(lines, path, w, n)
                              /\ Winners(lines, path)[n] = lines[w]
<1> DEFINE W == Winners(lines, path)
           P(n) == \/ NoneFits(lines, path, n) /\ W[n] = Allow(<<>>)
                   \/ \E w \in 1..n : Strongest(lines, path, w, n) /\ W[n] = lines[w]
           T == {n \in 0..Len(lines) : P(n)}
<1>1. Len(lines) \in Nat
  OBVIOUS
<1>2. 0 \in T
  <2>1. W[0] = Allow(<<>>)
    BY WinnersAre
  <2> QED
    BY <1>1, <2>1 DEF NoneFits
<1>3. \A i \in 1..Len(lines) : /\ Len(lines[i].pattern) \in Nat \ {0}
                               /\ lines[i].allow \in BOOLEAN
  <2> SUFFICES ASSUME NEW i \in 1..Len(lines)
               PROVE  Len(lines[i].pattern) \in Nat \ {0} /\ lines[i].allow \in BOOLEAN
    OBVIOUS
  <2>1. lines[i] \in Rules /\ lines[i].pattern # <<>>
    OBVIOUS
  <2>2. lines[i].pattern \in Seq(STRING) /\ lines[i].allow \in BOOLEAN
    BY <2>1 DEF Rules
  <2> QED
    BY <2>1, <2>2
<1>4. ASSUME NEW n \in 0..(Len(lines) - 1), P(n) PROVE P(n + 1)
  <2>1. PICK m \in 1..Len(lines) : m = n + 1 /\ m - 1 = n
    BY <1>1
  <2>2. W[m] = Stronger(path, W[n], lines[m])
    BY <2>1, WinnersAre
  <2>3. /\ \A j \in 1..m : j \in 1..n \/ j = m
        /\ \A j \in 1..n : j \in 1..m
        /\ m \in 1..m
    BY <2>1
  <2>4. \A j \in 1..m : Len(lines[j].pattern) \in Nat \ {0} /\ lines[j].allow \in BOOLEAN
    BY <1>3
  <2>5. ASSUME NEW w \in 1..m, Strongest(lines, path, w, m), W[m] = lines[w] PROVE P(m)
    <3> HIDE DEF W
    <3> QED
      BY <2>5
  <2> HIDE DEF W
  <2>6. ASSUME NoneFits(lines, path, n), W[n] = Allow(<<>>) PROVE P(m)
    <3>1. CASE Matches(lines[m].pattern, path)
      <4>1. Wins(lines[m], Allow(<<>>))
        BY <2>3, <2>4 DEF Wins, Allow
      <4>2. W[m] = lines[m]
        BY <2>2, <2>6, <3>1, <4>1 DEF Stronger
      <4>3. Strongest(lines, path, m, m)
        BY <2>3, <2>4, <2>6, <3>1 DEF Strongest, NoneFits
      <4> QED
        BY <2>3, <2>5, <4>2, <4>3
    <3>2. CASE ~Matches(lines[m].pattern, path)
      <4>1. W[m] = Allow(<<>>)
        BY <2>2, <2>6, <3>2 DEF Stronger
      <4>2. NoneFits(lines, path, m)
        BY <2>3, <2>6, <3>2 DEF NoneFits
      <4> QED
        BY <4>1, <4>2
    <3> QED
      BY <3>1, <3>2
  <2>7. ASSUME NEW w \in 1..n, Strongest(lines, path, w, n), W[n] = lines[w] PROVE P(m)
    <3>1. w \in 1..m /\ lines[m].allow \in BOOLEAN /\ lines[w].allow \in BOOLEAN
          /\ Len(lines[m].pattern) \in Nat /\ Len(lines[w].pattern) \in Nat
      BY <2>3, <2>4
    <3>2. CASE Matches(lines[m].pattern, path) /\ Wins(lines[m], lines[w])
      <4>1. W[m] = lines[m]
        BY <2>2, <2>7, <3>2 DEF Stronger
      <4>2. Len(lines[m].pattern) >= Len(lines[w].pattern)
            /\ (lines[m].allow \/ Len(lines[m].pattern) > Len(lines[w].pattern))
        BY <3>1, <3>2 DEF Wins
      <4>3. ASSUME NEW i \in 1..m, Matches(lines[i].pattern, path)
            PROVE  /\ Len(lines[i].pattern) <= Len(lines[m].pattern)
                   /\ Len(lines[i].pattern) = Len(lines[m].pattern) /\ lines[i].allow
                        => lines[m].allow
        <5>1. CASE i = m
          BY <3>1, <5>1
        <5>2. CASE i \in 1..n
          <6>1. Len(lines[i].pattern) <= Len(lines[w].pattern)
            BY <2>7, <4>3, <5>2 DEF Strongest
          <6>2. Len(lines[i].pattern) \in Nat
            BY <2>4
          <6> QED
            BY <3>1, <4>2, <6>1, <6>2
        <5> QED
          BY <2>3, <5>1, <5>2
      <4>4. Strongest(lines, path, m, m)
        BY <3>2, <4>3 DEF Strongest
      <4> QED
        BY <2>3, <2>5, <4>1, <4>4
    <3>3. CASE ~(Matches(lines[m].pattern, path) /\ Wins(lines[m], lines[w]))
      <4>1. W[m] = lines[w]
        BY <2>2, <2>7, <3>3 DEF Stronger
      <4>2. Matches(lines[m].pattern, path) =>
              /\ Len(lines[m].pattern) <= Len(lines[w].pattern)
              /\ ~(Len(lines[m].pattern) = Len(lines[w].pattern) /\ lines[m].allow)
        BY <3>1, <3>3 DEF Wins
      <4>3. Strongest(lines, path, w, m)
        BY <2>3, <2>7, <4>2 DEF Strongest
      <4> QED
        BY <2>5, <3>1, <4>1, <4>3
    <3> QED
      BY <3>2, <3>3
  <2> QED
    BY <1>4, <2>1, <2>6, <2>7
<1>5. Inductive(T, Len(lines))
  <2> HIDE DEF P
  <2>1. \A n \in 0..(Len(lines) - 1) : n \in T => n + 1 \in T
    BY <1>1, <1>4
  <2> QED
    BY <1>1, <1>2, <2>1 DEF Inductive
<1>6. \A n \in 0..Len(lines) : n \in T
  <2> HIDE DEF T
  <2> QED
    BY <1>5, Induction, Zenon
<1> QED
  BY <1>6

-----------------------------------------------------------------------------
(***************************************************************************)
(* The file is read as it is written                                       *)
(***************************************************************************)

\* The group that answers for us, with the lines that made it.
LEMMA Answering ==
  ASSUME NEW file \in Seq(Line)
  PROVE  LET group == GroupFor(Parse(file))
         IN  \E k \in Nat \ {0} :
               /\ Keeps(file, k, Len(file), group)
               /\ RulesOf(file, k, Len(file))
                    = {i \in Binding(file) : file[i].key = "rule" /\ file[i].pattern # <<>>}
               /\ DelaysOf(file, k, Len(file))
                    = {i \in Binding(file) : file[i].key = "crawl-delay"}
<1>1. PICK k \in Nat \ {0} : /\ GroupFor(Parse(file)) = GroupAt(Parse(file), k)
                             /\ Binding(file) = Bound(file, k)
  BY Selected
<1>2. Keeps(file, k, Len(file), GroupFor(Parse(file)))
  <2>1. Len(file) \in 0..Len(file)
    OBVIOUS
  <2>2. Keeps(file, k, Len(file), GroupAt(Parse(file), k))
    BY <2>1, GroupsKeep DEF Parse
  <2> QED
    BY <1>1, <2>2
<1>3. \A i \in 1..Len(file) : file[i].key # "user-agent" <=> ~IsAgent(file, i)
  BY DEF IsAgent
<1>4. RulesOf(file, k, Len(file))
        = {i \in Binding(file) : file[i].key = "rule" /\ file[i].pattern # <<>>}
  BY <1>1, <1>3 DEF RulesOf, Bound
<1>5. DelaysOf(file, k, Len(file)) = {i \in Binding(file) : file[i].key = "crawl-delay"}
  BY <1>1, <1>3 DEF DelaysOf, Bound
<1> QED
  BY <1>2, <1>4, <1>5

\* robots.txt: whatever its lines, the client may fetch exactly what they permit us.
THEOREM FetchedAsPermitted ==
  ASSUME NEW file \in Seq(Line), NEW path
  PROVE  MayFetch(Parse(file), path) <=> Permitted(file, path)
<1> DEFINE group == GroupFor(Parse(file))
           lines == group.rules
           written == {i \in Binding(file) : file[i].key = "rule" /\ file[i].pattern # <<>>}
           relevant == {i \in Binding(file) :
                          /\ file[i].key = "rule" /\ file[i].pattern # <<>>
                          /\ Matches(file[i].pattern, path)}
           decisive == {i \in relevant :
                          \A j \in relevant : Len(file[j].pattern) <= Len(file[i].pattern)}
           won == Winners(lines, path)[Len(lines)]
<1>1. group \in Group /\ RulesIn(group) = {file[i] : i \in written}
  BY Answering DEF Keeps
<1>2. MayFetch(Parse(file), path) = won.allow
  BY DEF MayFetch
<1>3. Permitted(file, path) <=> (decisive # {} => \E i \in decisive : file[i].allow)
  BY DEF Permitted
<1>4. relevant = {i \in written : Matches(file[i].pattern, path)}
  OBVIOUS
<1> HIDE DEF group
<1>5. lines \in Seq(Rules) /\ RulesIn(group) = {lines[j] : j \in 1..Len(lines)}
  BY <1>1 DEF Group, RulesIn
<1> HIDE DEF lines, written, decisive
<1>6. \A j \in 1..Len(lines) : \E i \in written : lines[j] = file[i]
  BY <1>1, <1>5
<1>7. \A i \in written : \E j \in 1..Len(lines) : lines[j] = file[i]
  BY <1>1, <1>5
<1>8. \A i \in written : file[i].pattern # <<>>
  BY DEF written
<1>9. \A j \in 1..Len(lines) :
        /\ lines[j].pattern # <<>> /\ Len(lines[j].pattern) \in Nat
        /\ lines[j].allow \in BOOLEAN
  <2> SUFFICES ASSUME NEW j \in 1..Len(lines)
               PROVE  /\ lines[j].pattern # <<>> /\ Len(lines[j].pattern) \in Nat
                      /\ lines[j].allow \in BOOLEAN
    OBVIOUS
  <2>1. lines[j] \in Rules
    BY <1>5
  <2>2. lines[j].pattern \in Seq(STRING) /\ lines[j].allow \in BOOLEAN
    BY <2>1 DEF Rules
  <2> QED
    BY <1>6, <1>8, <2>2
<1>10. \/ NoneFits(lines, path, Len(lines)) /\ won = Allow(<<>>)
       \/ \E w \in 1..Len(lines) : Strongest(lines, path, w, Len(lines)) /\ won = lines[w]
  <2>1. Len(lines) \in 0..Len(lines)
    BY <1>5
  <2> QED
    BY <1>5, <1>9, <2>1, WinnerIsStrongest
<1> HIDE DEF won
<1>11. ASSUME NoneFits(lines, path, Len(lines)), won = Allow(<<>>)
       PROVE  won.allow /\ decisive = {}
  <2>1. won.allow
    BY <1>11 DEF Allow
  <2>2. relevant = {}
    BY <1>4, <1>7, <1>11 DEF NoneFits
  <2> QED
    BY <2>1, <2>2 DEF decisive
<1>12. ASSUME NEW w \in 1..Len(lines), Strongest(lines, path, w, Len(lines)), won = lines[w]
       PROVE  won.allow <=> (decisive # {} => \E i \in decisive : file[i].allow)
  <2>1. PICK x \in written : lines[w] = file[x]
    BY <1>6
  <2>2. x \in relevant
    BY <1>4, <1>12, <2>1 DEF Strongest
  <2>3. ASSUME NEW i \in relevant
        PROVE  /\ Len(file[i].pattern) <= Len(file[x].pattern)
               /\ Len(file[i].pattern) = Len(file[x].pattern) /\ file[i].allow => file[x].allow
               /\ Len(file[i].pattern) \in Nat
    <3>1. PICK j \in 1..Len(lines) : lines[j] = file[i]
      BY <1>4, <1>7
    <3>2. Matches(lines[j].pattern, path)
      BY <1>4, <3>1
    <3> QED
      BY <1>9, <1>12, <2>1, <3>1, <3>2 DEF Strongest
  <2> HIDE DEF relevant
  <2>4. x \in decisive
    BY <2>2, <2>3 DEF decisive
  <2>5. ASSUME NEW i \in decisive, file[i].allow PROVE file[x].allow
    <3>1. i \in relevant /\ Len(file[x].pattern) <= Len(file[i].pattern)
      BY <2>2 DEF decisive
    <3>2. Len(file[i].pattern) = Len(file[x].pattern)
      BY <2>2, <2>3, <3>1
    <3> QED
      BY <2>3, <2>5, <3>1, <3>2
  <2> QED
    BY <1>12, <2>1, <2>4, <2>5
<1> QED
  BY <1>2, <1>3, <1>10, <1>11, <1>12

\* robots.txt: whatever its lines, the delay the client keeps is the last that binds us.
THEOREM DelayedAsAsked ==
  ASSUME NEW file \in Seq(Line)
  PROVE  GroupFor(Parse(file)).delay = AskedDelay(file)
<1> DEFINE group == GroupFor(Parse(file))
           delays == {i \in Binding(file) : file[i].key = "crawl-delay"}
<1>1. /\ delays = {} => group.delay = 0
      /\ \A i \in delays : (\A j \in delays : j <= i) => group.delay = file[i].delay
  BY Answering DEF Keeps
<1>2. AskedDelay(file) = IF delays = {} THEN 0 ELSE file[Max(delays)].delay
  BY DEF AskedDelay
<1>3. delays \in SUBSET Nat /\ IsFiniteSet(delays)
  <2>1. delays \in SUBSET (1..Len(file))
    BY DEF Binding
  <2>2. IsFiniteSet(1..Len(file))
    <3>1. 1 \in Int /\ Len(file) \in Int
      OBVIOUS
    <3> QED
      BY <3>1, FS_Interval, Zenon
  <2> HIDE DEF delays
  <2>3. IsFiniteSet(delays)
    BY <2>1, <2>2, FS_Subset, Zenon
  <2> QED
    BY <2>1, <2>3
<1> HIDE DEF delays, group
<1>4. delays # {} => Max(delays) \in delays /\ \A j \in delays : j <= Max(delays)
  BY <1>3, MaxOfFinite
<1> QED
  BY <1>1, <1>2, <1>4 DEF group

\* The delay asked for is written in the file, or there is none.
LEMMA AskedIsWritten ==
  ASSUME NEW file \in Seq(Line)
  PROVE  /\ AskedDelay(file) \in Nat
         /\ \/ AskedDelay(file) = 0
            \/ \E i \in DOMAIN file :
                 file[i].key = "crawl-delay" /\ AskedDelay(file) = file[i].delay
<1> DEFINE group == GroupFor(Parse(file))
           delays == {i \in Binding(file) : file[i].key = "crawl-delay"}
<1>1. group \in Group
  BY Answering DEF Keeps
<1>2. group.delay \in Nat
  BY <1>1 DEF Group
<1>3. AskedDelay(file) \in Nat
  BY <1>2, DelayedAsAsked
<1>4. AskedDelay(file) = IF delays = {} THEN 0 ELSE file[Max(delays)].delay
  BY DEF AskedDelay
<1>5. delays # {} => Max(delays) \in delays
  <2>1. delays \in SUBSET (1..Len(file))
    BY DEF Binding
  <2>2. IsFiniteSet(1..Len(file))
    <3>1. 1 \in Int /\ Len(file) \in Int
      OBVIOUS
    <3> QED
      BY <3>1, FS_Interval, Zenon
  <2> HIDE DEF delays
  <2>3. IsFiniteSet(delays)
    BY <2>1, <2>2, FS_Subset, Zenon
  <2>4. delays \in SUBSET Nat
    BY <2>1
  <2> QED
    BY <2>3, <2>4, MaxOfFinite
<1>6. \A i \in delays : i \in DOMAIN file /\ file[i].key = "crawl-delay"
  BY DEF Binding
<1> HIDE DEF delays
<1> QED
  BY <1>3, <1>4, <1>5, <1>6
=============================================================================
