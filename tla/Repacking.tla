----------------------------- MODULE Repacking -----------------------------
(***************************************************************************)
(* Transformers that put the operations of a circuit into other moments:   *)
(* align_left(), align_right(), stratified_circuit(), the merging of       *)
(* operations and synchronize_terminal_measurements() of cirq/transformers,*)
(* as functions of the moments.                                            *)
(*                                                                         *)
(* A moment is a set: the order in which the code visits its operations    *)
(* makes no difference while none of them clashes with another.            *)
(***************************************************************************)
EXTENDS Insertion

\* A circuit is made of lists and the qubits of an operation are a tuple, so there are
\* finitely many operations to visit, on finitely many qubits each.
ASSUME OperationsAssumption == IsFiniteSet(Ops) /\ \A x \in Ops : IsFiniteSet(QubitsOf[x])

\* Operations with a tag of context.tags_to_ignore are given as the set ignored.

\* The operations of a moment in some order.
Visited(m) == SetToSeq(m)

\* A circuit with empty moments up to number n.
PaddedTo(ms, n) == ms \o Empties(n - Len(ms))

----------------------------------------------------------------------------
\* align_left(), align_right()

\* Mutant: an ignored operation goes to the end of what there is.
MutAlignOp(c, n, x, ignored) ==
    IF x \in ignored THEN Put(c, Greater(Len(c.ms), 1), x)
    ELSE Insert(c.ms, NoCache, Len(c.ms), <<Op(x)>>, "EARLIEST")

AlignOp(c, n, x, ignored) ==
    IF x \in ignored THEN Put([c EXCEPT !.ms = PaddedTo(@, n)], n, x)
    ELSE Insert(c.ms, NoCache, Len(c.ms), <<Op(x)>>, "EARLIEST")

\* The operations of moment number n, until one overlaps.
AlignNext(c, n, x, ignored) == IF c.raised THEN c ELSE AlignOp(c, n, x, ignored)
AlignMoment(c, n, m, ignored) ==
    LET xs == Visited(m)
        after[i \in 0 .. Len(xs)] ==
            IF i = 0 THEN c ELSE AlignNext(after[i - 1], n, xs[i], ignored)
    IN  after[Len(xs)]

AlignLeft(ms, ignored) ==
    LET after[n \in 0 .. Len(ms)] ==
            IF n = 0 THEN Start(<<>>, 0, "EARLIEST", NoCache)
            ELSE AlignMoment(after[n - 1], n, ms[n], ignored)
    IN  after[Len(ms)]

AlignRight(ms, ignored) ==
    LET c == AlignLeft(Reverse(ms), ignored) IN [c EXCEPT !.ms = Reverse(@)]

----------------------------------------------------------------------------
\* _stratify_circuit(): class[x] \in 0 .. n - 1 is the class of an operation by the
\* order of the classifiers; those ignored form one more class.

\* Mutant: the slot of the class in the current stratum is taken also when it has
\* passed.
MutStratum(min, k, size) == (min \div size) * size + k

\* The first index from min on that belongs to class k.
Stratum(min, k, size) ==
    LET t == (min \div size) * size + k IN IF t < min THEN t + size ELSE t

\* The time of one operation; get_earliest_accommodating_moment_index() also updates
\* the dictionaries, t.times.  Ignored operations come after s.last, the
\* last_ignored_ops_time_index.
TimeOp(t, s, x, class, n, ignored) ==
    LET min == LastConflict(t.times, x)
    IN  [times |-> Record(t.times, {x}, min + 1),
         at |-> [t.at EXCEPT ![x] = IF x \in ignored THEN Stratum(Greater(min, s.last + 1), n, n + 1)
                                    ELSE Stratum(min, class[x], n + 1)]]

TimeMoment(s, m, class, n, ignored) ==
    LET xs == Visited(m)
        timed[i \in 0 .. Len(xs)] ==
            IF i = 0 THEN [times |-> s.times, at |-> [x \in m |-> 0]]
            ELSE TimeOp(timed[i - 1], s, xs[i], class, n, ignored)
    IN  timed[Len(xs)]

\* Move x to index i; moments are numbered from 1.  The last time of a control key is
\* overwritten.
MoveOp(s, x, i, size) ==
    LET ms == IF i >= Len(s.ms) THEN PaddedTo(s.ms, Len(s.ms) + size) ELSE s.ms
        times == Record(s.times, {x}, i + 1)
    IN  [s EXCEPT !.ms = [ms EXCEPT ![i + 1] = @ \cup {x}],
                  !.times = [times EXCEPT !.c = [b \in Keys |-> IF b \in CKeysOf[x] THEN i + 1
                                                                 ELSE times.c[b]]]]

MoveMoment(s, m, at, size) ==
    LET xs == Visited(m)
        moved[i \in 0 .. Len(xs)] == IF i = 0 THEN s ELSE MoveOp(moved[i - 1], xs[i], at[xs[i]], size)
    IN  moved[Len(xs)]

\* One moment: times first, with ignored operations kept together, then moves.
StratifyMoment(s, m, class, n, ignored) ==
    LET t == TimeMoment(s, m, class, n, ignored)
        last == IF m \cap ignored = {} THEN s.last ELSE MaxOf({t.at[x] : x \in m \cap ignored})
        at == [x \in m |-> IF x \in ignored THEN last ELSE t.at[x]]
    IN  MoveMoment([s EXCEPT !.times = t.times, !.last = last], m, at, n + 1)

\* The moments that are not empty.
NotEmpty(ms) ==
    LET kept[n \in 0 .. Len(ms)] ==
            IF n = 0 THEN <<>> ELSE IF ms[n] = {} THEN kept[n - 1] ELSE Append(kept[n - 1], ms[n])
    IN  kept[Len(ms)]

StratifyMoments(ms, class, n, ignored) ==
    LET done[i \in 0 .. Len(ms)] ==
            IF i = 0 THEN [ms |-> <<>>, times |-> EmptyCache, last |-> 0]
            ELSE StratifyMoment(done[i - 1], ms[i], class, n, ignored)
    IN  done[Len(ms)]

Stratify(ms, class, n, ignored) == NotEmpty(StratifyMoments(ms, class, n, ignored).ms)

\* The circuits stratified_circuit() takes the shortest of: every order of the
\* classes, forward and backward.
Stratified(ms, class, n, ignored) ==
    LET orders == {[x \in Ops |-> p[class[x]]] : p \in {f \in [0 .. n - 1 -> 0 .. n - 1] :
                        \A i, j \in 0 .. n - 1 : f[i] = f[j] => i = j}}
    IN  {Stratify(ms, c, n, ignored) : c \in orders} \cup
        {Reverse(Stratify(Reverse(ms), c, n, ignored)) : c \in orders}

----------------------------------------------------------------------------
\* _merge_operations_impl(): a component is the set of operations merged into it,
\* and a moment a set of components.  The sorted lists of moments per qubit and key
\* are what can be read off the moments.

CompQubits(d) == MomentQubits(d)

\* The last moment with a component on one of qs, or one whose keys c clashes with.
LastTouching(cs, c, qs) ==
    MaxOf({0} \cup {n \in DOMAIN cs : \E d \in cs[n] :
        \/ CompQubits(d) \cap qs # {}
        \/ MomentMKeys(d) \cap MomentCKeys(c) # {}
        \/ MomentCKeys(d) \cap MomentMKeys(c) # {}})

\* Mutant: the first moment on one of the qubits instead of the last.
MutMergeable(cs, c, qs) ==
    LET ns == {n \in DOMAIN cs : \E d \in cs[n] : CompQubits(d) \cap qs # {}}
    IN  IF ns = {} THEN {}
        ELSE {d \in cs[CHOOSE n \in ns : \A i \in ns : n <= i] : CompQubits(d) \cap qs # {}}

\* get_mergeable_components()
Mergeable(cs, c, qs) ==
    LET n == LastTouching(cs, c, qs)
    IN  IF n = 0 THEN {} ELSE {d \in cs[n] : CompQubits(d) \cap qs # {}}

\* One turn of the while loop: components on the left merge into c; those that do not
\* close their qubits.  It ends with no component or no qubit left.
MergeLeft(s, can) ==
    LET left == Mergeable(s.cs, s.c, s.qs)
        merged == {d \in left : CompQubits(d) \subseteq s.qs /\ d \subseteq can}
    IN  IF left = {} \/ s.qs = {} THEN s
        ELSE [cs |-> [n \in DOMAIN s.cs |-> s.cs[n] \ merged],
              c |-> s.c \cup UNION merged,
              qs |-> s.qs \ UNION {CompQubits(d) : d \in left \ merged}]

\* Every turn takes a component or a qubit.
MergeRight(cs, c, can) ==
    LET last == Cardinality(Ops) + Cardinality(CompQubits(c))
        turn[i \in 0 .. last] ==
            IF i = 0 THEN [cs |-> cs, c |-> c, qs |-> CompQubits(c)] ELSE MergeLeft(turn[i - 1], can)
    IN  turn[last]

AddMerged(s) == [s.cs EXCEPT ![Len(s.cs)] = @ \cup {s.c}]

\* One operation of the moment that has just been added; can: the operations that
\* may be merged.
MergeOp(cs, x, can) ==
    LET top == Len(cs)
        left == Mergeable(cs, {x}, QubitsOf[x])
        At(n, d) == [cs EXCEPT ![n] = @ \cup {d}]
        single == Cardinality(left) = 1 /\ QubitsOf[x] \subseteq CompQubits(UNION left)
        n == CHOOSE i \in DOMAIN cs : left \subseteq cs[i]
    IN  IF x \notin can THEN At(top, {x})
        ELSE IF single
        THEN IF UNION left \subseteq can THEN [cs EXCEPT ![n] = (@ \ left) \cup {{x} \cup UNION left}]
             ELSE At(top, {x})
        ELSE AddMerged(MergeRight(cs, {x}, can))

MergeMoment(cs, m, can) ==
    LET xs == Visited(m)
        merged[i \in 0 .. Len(xs)] ==
            IF i = 0 THEN Append(cs, {}) ELSE MergeOp(merged[i - 1], xs[i], can)
    IN  merged[Len(xs)]

Merge(ms, can) ==
    LET merged[n \in 0 .. Len(ms)] == IF n = 0 THEN <<>> ELSE MergeMoment(merged[n - 1], ms[n], can)
    IN  merged[Len(ms)]

----------------------------------------------------------------------------
\* synchronize_terminal_measurements()

\* Mutant: the keys that later operations read are not looked at.
MutTerminal(ms) ==
    {x \in UNION ToSet(ms) : MKeysOf[x] # {} /\ \E n \in DOMAIN ms : x \in ms[n] /\
        \A i \in n + 1 .. Len(ms) : ~Overlaps(ms[i], x)}

\* find_terminal_measurements()
Terminal(ms) ==
    {x \in UNION ToSet(ms) : MKeysOf[x] # {} /\ \E n \in DOMAIN ms : x \in ms[n] /\
        \A i \in n + 1 .. Len(ms) :
            ~Overlaps(ms[i], x) /\ MomentCKeys(ms[i]) \cap MKeysOf[x] = {}}

Synchronize(ms, after, ignored) ==
    LET last == Terminal(ms) \ ignored
        rest == [n \in DOMAIN ms |-> ms[n] \ last]
        room == IF Last(rest) # {} /\ after THEN Append(rest, {}) ELSE rest
    IN  IF last = {} THEN ms ELSE [room EXCEPT ![Len(room)] = @ \cup last]
=============================================================================
