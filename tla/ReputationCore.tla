--------------------------- MODULE ReputationCore ---------------------------
(***************************************************************************)
(* The arithmetic of reputation-core that the runtime calls: the damped     *)
(* trust matrix and its fixed-point iteration (EigenTrust anchored in       *)
(* evidence), the aggregate over suits, the shares of the entrenchment      *)
(* guard, the quota of vouches, and the host's registry of vouches; and of  *)
(* consensus-core the sortition, in the same numbers.                       *)
(*                                                                          *)
(* Values are fixed point: Scale stands for 1.  The code has Scale = 10^9   *)
(* and truncates every product and quotient; so do these operators, with    *)
(* any Scale.  A vouch graph of one suit is a function w from pairs of      *)
(* masks to the sum of the weights, 0 where there is no edge.               *)
(*                                                                          *)
(* Left out: the f64 prototypes behind the "std" feature, which the runtime *)
(* does not link, and the saturation of products, which ordinary amounts    *)
(* never meet.                                                              *)
(***************************************************************************)
EXTENDS Integers, FiniteSets, SequencesExt

CONSTANTS
    Scale,        \* FP_SCALE
    Iterations,   \* Params::iterations, the rounds of the power iteration
    PoissonAnchor,     \* weight of the mode of a Poisson variable, 10^18 in the code
    MaxSeats,          \* 64 in the code
    Floor,             \* the smallest committee that bears a fault, 4 in the code
    None               \* no value, not a number

ASSUME ScaleAssumption ==
    Scale \in Nat \ {0} /\ Iterations \in Nat /\ MaxSeats \in Nat /\ Floor \in Nat

FpMul(a, b) == (a * b) \div Scale
FpDiv(a, b) == (a * Scale) \div b

\* Params of the runtime: community and in_concentration are switched on.
Alpha == (3 * Scale) \div 10
Beta  == 4 * Scale
Gamma == 4 * Scale
Kappa == Scale \div 2
Mu    == 8 * Scale
K0    == 26 * Scale
Rho   == 2 * Scale

Total(f, S) == MapThenSumSet(LAMBDA x : f[x], S)

\* [x \in S |-> op(x)].  The iteration applies each round's function many times;
\* TLC evaluates a function constructor on each use, and one it compared only once.
Tabulated(op(_), S) == CHOOSE f \in {[x \in S |-> op(x)]} : f = f

\* op(x), for an x that op uses many times: TLC passes an operator its argument
\* unevaluated, and a bound variable its value.
With(x, op(_)) == CHOOSE y \in {op(v) : v \in {x}} : TRUE

(***************************************************************************)
(* The pre-trust: each mask's share of the evidence of the suit.  With no   *)
(* evidence at all nobody is trusted.                                       *)
(***************************************************************************)
\* Mutant for StandingIsEarned: without evidence everybody is trusted alike.
UniformPretrust(ev, nodes) ==
    LET sum == Total(ev, nodes)
    IN  Tabulated(LAMBDA n : IF sum = 0 THEN Scale \div Cardinality(nodes)
                             ELSE (ev[n] * Scale + sum \div 2) \div sum, nodes)

Pretrust(ev, nodes) ==
    LET sum == Total(ev, nodes)
    IN  Tabulated(LAMBDA n : IF sum = 0 THEN 0
                             ELSE (ev[n] * Scale + sum \div 2) \div sum, nodes)

(***************************************************************************)
(* The factors of the matrix.                                               *)
(***************************************************************************)
OutNeighbours(w, i, nodes) == {j \in nodes : w[<<i, j>>] > 0}

\* Reciprocity and overlap of the neighbourhoods make a vouch less independent.
Independence(w, i, j, nodes) ==
    LET ni == OutNeighbours(w, i, nodes) \ {j}
        nj == OutNeighbours(w, j, nodes) \ {i}
        reciprocal == IF w[<<j, i>>] > 0 THEN Scale ELSE 0
        overlap == IF ni \union nj = {} THEN 0
                   ELSE (Cardinality(ni \intersect nj) * Scale)
                          \div Cardinality(ni \union nj)
    IN  FpDiv(Scale, Scale + FpMul(Beta, reciprocal) + FpMul(Gamma, overlap))

\* The i-th is the one that has i - 1 below it.
Ascending(S) ==
    [i \in 1..Cardinality(S) |-> CHOOSE n \in S : Cardinality({m \in S : m < n}) = i - 1]

\* Label propagation over the undirected graph, masks in ascending order, at
\* most 15 rounds; the smallest of the most frequent labels wins.
Adjacent(w, nodes, n) == {m \in nodes : w[<<n, m>>] > 0 \/ w[<<m, n>>] > 0}
BestLabel(w, nodes, label, n) ==
    LET adj == Adjacent(w, nodes, n)
        votes(l) == Cardinality({m \in adj : label[m] = l})
        labels == {label[m] : m \in adj}
    IN  Min({l \in labels : \A k \in labels : votes(k) <= votes(l)})
Relabel(w, nodes, label, n) ==
    IF Adjacent(w, nodes, n) = {} THEN label
    ELSE [label EXCEPT ![n] = BestLabel(w, nodes, label, n)]
RelabelAll(w, nodes, label) ==
    FoldLeft(LAMBDA old, n : With(old, LAMBDA l : Relabel(w, nodes, l, n)), label, Ascending(nodes))
Communities(w, nodes) ==
    FoldLeft(LAMBDA old, round : With(old, LAMBDA l : RelabelAll(w, nodes, l)),
             Tabulated(LAMBDA n : n, nodes), [round \in 1..15 |-> round])

\* Internal vouches of a community against its evidence of every suit.
Suspicion(w, nodes, label, allEv) ==
    Tabulated(LAMBDA c :
        LET members == {n \in nodes : label[n] = c}
            internal == Cardinality({e \in members \X members : w[e] > 0})
        IN  FpDiv(internal * Scale, Scale + Total(allEv, members) * Scale), Range(label))

\* Per target: how concentrated its incoming trust is over the communities, a
\* gate on the number of sources, and the share of each community.
InConcentration(w, nodes, label, tgt) ==
    LET sources == {s \in nodes : w[<<s, tgt>>] > 0}
        weight(S) == Total([s \in S |-> w[<<s, tgt>>] * Scale], S)
        shares == Tabulated(
            LAMBDA c : FpDiv(weight({s \in sources : label[s] = c}), weight(sources)),
            {label[s] : s \in sources})
        n == Cardinality(sources) * Scale
    IN  [conc   |-> Total([c \in DOMAIN shares |-> FpMul(shares[c], shares[c])], DOMAIN shares),
         gate   |-> FpDiv(n, n + K0),
         shares |-> shares]

\* What trust of i in j counts for: 1 damped by all three.
Damped(w, nodes, label, susp, ev, i, j) ==
    LET brake == IF label[i] = label[j]
                 THEN FpDiv(Scale, Scale + FpMul(Kappa, susp[label[i]]))
                 ELSE Scale
        inc == InConcentration(w, nodes, label, j)
        deficit == FpDiv(Scale, Scale + FpMul(Rho, ev[j] * Scale))
        inner == FpMul(FpMul(FpMul(FpMul(inc.conc, inc.conc),
                                   inc.shares[label[i]]), inc.gate), deficit)
        funnel == FpDiv(Scale, Scale + FpMul(Mu, inner))
    IN  FpMul(FpMul(Independence(w, i, j, nodes), brake), funnel)

DampedLocalMatrix(w, nodes, ev, allEv) ==
    LET out(i) == Total([j \in nodes |-> w[<<i, j>>]], nodes)
        entry(label, susp, i, j) ==
            IF w[<<i, j>>] = 0 THEN 0
            ELSE FpMul(FpDiv(w[<<i, j>>] * Scale, out(i) * Scale),
                       Damped(w, nodes, label, susp, ev, i, j))
        Matrix(label, susp) ==
            Tabulated(LAMBDA i : Tabulated(LAMBDA j : entry(label, susp, i, j), nodes), nodes)
    IN  With(Communities(w, nodes), LAMBDA label :
            With(Suspicion(w, nodes, label, allEv), LAMBDA susp : Matrix(label, susp)))

(***************************************************************************)
(* The iteration: each mask keeps Alpha of its pre-trust, passes the rest   *)
(* of its trust along its row, and what its row does not take leaks to the  *)
(* pre-trusted.                                                             *)
(***************************************************************************)
NextTrust(c, pre, nodes, t) ==
    LET emitted(i) == ((Scale - Alpha) * t[i]) \div Scale
        row(i) == Total(c[i], nodes)
        leak == Total([i \in nodes |-> (emitted(i) * (Scale - row(i))) \div Scale], nodes)
    IN  Tabulated(LAMBDA k :
            (Alpha * pre[k]) \div Scale
            + Total([i \in nodes |-> (emitted(i) * c[i][k]) \div Scale], nodes)
            + (leak * pre[k]) \div Scale, nodes)

\* A fixed point stays: the code stops at it, the fold goes on from it.
Fixpoint(c, pre, nodes) ==
    FoldLeft(LAMBDA last, round : With(last, LAMBDA t : NextTrust(c, pre, nodes, t)),
             pre, [round \in 1..Iterations |-> round])

\* reputation_dimension_fully_fixed_fp, for the evidence of one suit (ev) and
\* of all suits together (allEv).
ReputationDimension(w, nodes, ev, allEv) ==
    With(Pretrust(ev, nodes), LAMBDA pre :
        IF Total(ev, nodes) = 0 THEN pre
        ELSE With(DampedLocalMatrix(w, nodes, ev, allEv), LAMBDA c : Fixpoint(c, pre, nodes)))

(***************************************************************************)
(* Aggregates over the suits, and shares of the whole.                      *)
(***************************************************************************)
\* (1 - lambda) min + lambda median of a non-empty sequence of suit values.
ConcaveAggregate(suits, lambda) ==
    LET v == SortSeq(suits, <)
        n == Len(v)
        median == IF n % 2 = 1 THEN v[n \div 2 + 1]
                               ELSE (v[n \div 2] + v[n \div 2 + 1]) \div 2
    IN  ((Scale - lambda) * v[1] + lambda * median) \div Scale

Positive(reps) == {a \in DOMAIN reps : reps[a] > 0}

MaxSingleEntityShare(reps) ==
    LET total == Total(reps, Positive(reps))
    IN  IF total = 0 THEN 0
        ELSE (Max({reps[a] : a \in Positive(reps)}) * Scale) \div total

\* The same for the heaviest community; a mask without label is one of its own.
MaxClusterShare(label, reps) ==
    LET total == Total(reps, Positive(reps))
        labelOf(a) == IF a \in DOMAIN label THEN label[a] ELSE a
        members(c) == {a \in Positive(reps) : labelOf(a) = c}
    IN  IF total = 0 THEN 0
        ELSE (Max({Total(reps, members(labelOf(a))) : a \in Positive(reps)})
                * Scale) \div total

\* One epoch of the entrenchment guard: the counter of epochs over the
\* threshold, and whether it halts finality.
EntrenchmentHaltStep(share, threshold, counter, required) ==
    IF share > threshold
    THEN [counter |-> counter + 1, halted |-> counter + 1 >= required]
    ELSE [counter |-> 0, halted |-> FALSE]

\* floor(k log2(1 + reputation)) for a whole k, the reputation read on the
\* display scale of 1000 and without its fraction.
FloorLog2(x) == Cardinality({e \in 1..30 : 2^e <= x})
VouchQuota(rep, k) ==
    IF rep <= 0 THEN 0 ELSE FloorLog2((1 + (rep * 1000) \div Scale)^k)

-----------------------------------------------------------------------------
(* sortition_fp of consensus-core: seats by reputation-weighted lot, and    *)
(* the election of the finality committee from it.  The value of the VRF    *)
(* (a hash of the key and the seed) is an input, one per member and draw.   *)
\* Unnormalised weights of a Poisson variable of mean lam / Scale, from the
\* mode outwards until they vanish; MaxSeats is beyond where they do.
PoissonWeights(lam) ==
    LET mode == lam \div Scale
        w[k \in 0..MaxSeats] ==
            IF k = mode THEN PoissonAnchor
            ELSE IF k > mode THEN ((w[k - 1] * lam) \div Scale) \div k
            ELSE (w[k + 1] * (k + 1) * Scale) \div lam
    IN  Tabulated(LAMBDA k : w[k], 0..MaxSeats)

\* The inverse of the distribution at value.
SeatsOf(value, lam) ==
    LET At(w) ==
            LET total == Total(w, 0..MaxSeats)
                cdf(j) == Min({(Total(w, 0..j) * Scale) \div total, Scale})
            IN  Min({j \in 0..(MaxSeats - 1) : value < cdf(j)} \union {MaxSeats})
    IN  IF lam <= 0 THEN 0 ELSE With(PoissonWeights(lam), At)

\* {node: seats} of the winners, of tau seats expected in all.
ElectCommittee(weights, vrf, tau) ==
    LET total == Total(weights, Positive(weights))
        lam(n) == FpMul(tau * Scale, FpDiv(weights[n], total))
    IN  With(Tabulated(LAMBDA n : SeatsOf(vrf[n], lam(n)), Positive(weights)),
             LAMBDA seats : Tabulated(LAMBDA n : seats[n], Positive(seats)))

\* Of the draw and its redraws: the first that reaches the floor, or the largest.
BestDraw(draws, floor) ==
    FoldLeft(LAMBDA best, d :
                IF Cardinality(best) >= floor \/ Cardinality(d) <= Cardinality(best)
                THEN best ELSE d,
             Head(draws), Tail(draws))

\* The keys of the beacon count once enough of the reputable have committed one:
\* to commit costs nothing, and one committer must not empty the electorate.
\* Mutant for CommitteeViable: they count as soon as there is one.
UsesBeaconAtOnce(reputable, committed) == committed # {}
UsesBeacon(reputable, committed) ==
    /\ reputable # {}
    /\ Cardinality(reputable \cap committed) >= Min({Floor, Cardinality(reputable)})
Electorate(reputable, committed) ==
    IF UsesBeacon(reputable, committed) THEN reputable \cap committed ELSE reputable

\* elect_finality_committee up to the draw: who may sit, and how many should.
\* bound are the masks with a vote key, hence with a node.
FinalityElectorate(reps, bound, committed, halted) ==
    IF halted THEN {} ELSE Electorate(Positive(reps) \cap bound, committed)
DrawFloor(eligible) == Min({Floor, Cardinality(eligible)})

-----------------------------------------------------------------------------
(* The registry of sponsorships of reputation-core: who is how near to whom *)
(* in the graph of vouches, searched breadth first within a budget, and how *)
(* a proven fraud climbs to the sponsors.  The registry is the sequence of  *)
(* its links in the order in which they were made.                          *)
SponsorLink(links, sponsor, protege) ==
    Append(links, [sponsor |-> sponsor, protege |-> protege, live |-> TRUE])
SponsorsOf(links, protege) ==
    {link.sponsor : link \in {l \in ToSet(links) : l.protege = protege}}
LiveVouches(links, sponsor) ==
    Len(SelectSeq(links, LAMBDA link : link.sponsor = sponsor /\ link.live))

\* The protege stands on its own: the quota is free, the liability stays.
Graduate(links, sponsor, protege) ==
    [i \in DOMAIN links |->
        IF links[i].sponsor = sponsor /\ links[i].protege = protege
        THEN [links[i] EXCEPT !.live = FALSE] ELSE links[i]]

\* A tie is a tie whichever of the two vouched.
Neighbors(links, node) ==
    LET tied == SelectSeq(links, LAMBDA link : node \in {link.sponsor, link.protege})
    IN  [i \in DOMAIN tied |->
            IF tied[i].sponsor = node THEN tied[i].protege ELSE tied[i].sponsor]

-----------------------------------------------------------------------------
(* The search.  It ends at b, at max_hops, or when it has visited max_visit  *)
(* members, which counts as no relation.                                     *)
Meet(search, member, b, max_visit) ==
    IF search.over THEN search
    ELSE IF member = b \/ Cardinality(search.visited) >= max_visit
    THEN [search EXCEPT !.over = TRUE, !.met = (member = b)]
    ELSE [search EXCEPT !.visited = @ \union {member},
                        !.frontier = IF member \in search.visited THEN @ ELSE Append(@, member)]

\* One hop: the neighbours of the frontier, in its order.
Widen(links, search, b, max_visit) ==
    LET reached == FlattenSeq([i \in DOMAIN search.frontier |->
                                 Neighbors(links, search.frontier[i])])
    IN  FoldLeft(LAMBDA s, member : Meet(s, member, b, max_visit),
                 [search EXCEPT !.frontier = <<>>, !.depth = @ + 1], reached)

VouchDistance(links, a, b, max_hops, max_visit) ==
    LET start == [visited |-> {a}, frontier |-> <<a>>, depth |-> 0, over |-> FALSE, met |-> FALSE]
        Hop(search, i) ==
            IF search.over \/ search.frontier = <<>> THEN search
            ELSE Widen(links, search, b, max_visit)
        end == FoldLeft(Hop, start, [i \in 1..max_hops |-> i])
    IN  IF a = b THEN 0 ELSE IF end.met THEN end.depth ELSE None

\* How near the nearest of the parties is to who.
NearestPartyDistance(links, who, parties, max_hops, max_visit) ==
    LET found == {VouchDistance(links, who, p, max_hops, max_visit) : p \in parties} \ {None}
    IN  IF found = {} THEN None ELSE Min(found)

-----------------------------------------------------------------------------
(* What a fraud costs: the culprit the loss, each sponsor the fraction of    *)
(* what its protege lost, up to depth hops, whoever was hit being hit once.  *)
(* All of a level lose the same, so the order in a level is not told apart.  *)
PassedOn(amount, fraction, scale) == (amount * fraction) \div scale

Climb(links, hit, fraction, scale) ==
    LET lost == PassedOn(hit.amount, fraction, scale)
    IN  [level |-> IF lost = 0 THEN {}
                   ELSE UNION {SponsorsOf(links, m) : m \in hit.level} \ hit.visited,
         amount |-> lost, rep |-> hit.rep, visited |-> hit.visited]
Charge(hit) ==
    [hit EXCEPT !.rep = [m \in DOMAIN @ |-> IF m \in hit.level THEN Max({@[m] - hit.amount, 0})
                                            ELSE @[m]],
                !.visited = @ \union hit.level]

CascadeSlashing(reputation, links, culprit, loss, fraction, scale, depth) ==
    LET first == [level |-> IF loss > 0 THEN {culprit} ELSE {}, amount |-> loss,
                  rep |-> reputation, visited |-> {}]
    IN  FoldLeft(LAMBDA hit, i : Charge(Climb(links, hit, fraction, scale)),
                 Charge(first), [i \in 1..depth |-> i]).rep
=============================================================================
