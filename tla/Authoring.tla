----------------------------- MODULE Authoring -----------------------------
(***************************************************************************)
(* service.rs of the node: who seals a block.  Every node of the full role  *)
(* wakes once per slot of the wall clock, reads the runtime at its own best *)
(* block, draws a committee and lets its first member, by a hash, lead.     *)
(* The leader orders a block, which is built later and on whatever is then  *)
(* its best block.                                                         *)
(*                                                                         *)
(* Nothing of this is checked on import: that nodes agree on the leader     *)
(* rests on what they read.  A draw is any function of what it is made      *)
(* from: the first node that draws in a slot picks the outcome, the others  *)
(* find it in draws.  A node that is behind or cut off seals all the same,  *)
(* and goes on from its own block: blocks are a tree, and two branches may  *)
(* settle an epoch differently.                                            *)
(***************************************************************************)
EXTENDS Integers, FiniteSets, Sequences

CONSTANTS
    Masks, Keys, Nobody,
    Nodes,
    KeyOf,             \* [Nodes -> key of --vote-as, or Nobody]
    SealsAlone,        \* nodes started with --seal-without-peers
    BuiltFor,          \* [Nodes -> spec version of the binary]
    Spec0,             \* spec version of the chain's runtime
    EpochBlocks,       \* of reputation and beacon, in blocks
    Registers,         \* what an epoch may settle: [reputable, committed, lot];
                       \* lot stands for the weights and the seed
    GenesisRegister, GenesisHot,
    HotKeys,           \* keys that get bound while the chain runs
    Channel,           \* orders the authorship task leaves waiting
    MaxBlocks          \* bound: blocks of the tree

ASSUME AuthoringAssumption ==
    /\ Masks \subseteq Keys /\ Nobody \notin Keys /\ HotKeys \subseteq Keys
    /\ EpochBlocks \in Nat \ {0} /\ {Channel, MaxBlocks} \subseteq Nat
    /\ KeyOf \in [Nodes -> Keys \union {Nobody}]
    /\ GenesisRegister \in Registers /\ GenesisHot \in [Masks -> Keys \union {Nobody}]
    /\ \A r \in Registers : r.reputable \subseteq Masks /\ r.committed \subseteq Masks

VARIABLES
    blocks,    \* in the order they were built: [number, past, register, hot],
               \* where past are the places of a block and its ancestors
    best,      \* [Nodes -> place of the node's best block]
    handled,   \* nodes whose last_slot is the current slot
    orders,    \* [Nodes -> orders in the channel]
    draws,     \* the draws made in this slot: [from, committee, leader]
    elected    \* history of this slot: [node, mask, view], view a place in blocks

authoring == <<blocks, best, handled, orders, draws, elected>>

-----------------------------------------------------------------------------
(* The gate at start: a binary older than the runtime refuses to run, a      *)
(* newer one syncs forward.                                                  *)
MayStart(n) == BuiltFor[n] >= Spec0

(* Who may lead in the state of a block: the reputable with a node.  Once    *)
(* anyone has an active key in the beacon, only those who have one.          *)
Reputable(b) == b.register.reputable
HasNode(b) == {m \in Masks : b.hot[m] # Nobody}
Bound(b) == Reputable(b) \intersect HasNode(b)
UsesChain(b) == Bound(b) # {}
SkipsSlot(b) == Reputable(b) # {} /\ Bound(b) = {}
Candidates(b) ==
    IF b.register.committed = {} THEN Bound(b) ELSE Bound(b) \intersect b.register.committed

\* What a draw is a function of, the slot aside.
From(b) == [register |-> b.register, candidates |-> Candidates(b)]

\* The committee, and of it the member that minimises a hash.
Draw(b, d) ==
    /\ d.from = From(b)
    /\ d.committee \subseteq Candidates(b)
    /\ IF d.committee = {} THEN d.leader = Nobody ELSE d.leader \in d.committee
    /\ \A e \in draws : e.from = d.from => e = d

\* The mask a node seals for: the one its key is bound to, else the key itself.
Delegators(b, key) == {m \in Masks : b.hot[m] = key}
MaskOf(b, n) ==
    IF Delegators(b, KeyOf[n]) = {} THEN KeyOf[n]
    ELSE CHOOSE m \in Delegators(b, KeyOf[n]) : TRUE

\* Mutant for OneMaskPerSlot: every member of the committee seals.
SeatLeads(b, n, d) == KeyOf[n] # Nobody /\ MaskOf(b, n) \in d.committee
Leads(b, n, d) == KeyOf[n] # Nobody /\ d.leader # Nobody /\ MaskOf(b, n) = d.leader

\* An isolated leader skips its slot, unless the operator wants a lone chain.
MaySeal(n, connected) == n \in SealsAlone \/ connected

-----------------------------------------------------------------------------
(* What a block makes of the state of its parent.  Standing and the beacon   *)
(* are settled by its first hooks at the start of an epoch, to whatever this *)
(* branch has come to; a call may bind a key that is free, or release one.   *)
BeginsEpoch(number) == number % EpochBlocks = 0
Settled(parent) ==
    IF BeginsEpoch(parent.number + 1) THEN Registers ELSE {parent.register}
Rebound(parent) ==
    {parent.hot} \union
      {[parent.hot EXCEPT ![m] = k] : m \in Masks, k \in
         {Nobody} \union {key \in HotKeys : Delegators(parent, key) = {}}}

\* The authorship task takes an order: the block goes on the best block of now.
Author(n) ==
    /\ orders[n] > 0 /\ orders' = [orders EXCEPT ![n] = @ - 1]
    /\ Len(blocks) < MaxBlocks
    /\ LET parent == blocks[best[n]]
           place == Len(blocks) + 1
       IN  /\ \E register \in Settled(parent), hot \in Rebound(parent) :
                blocks' = Append(blocks, [number |-> parent.number + 1,
                                          past |-> parent.past \union {place},
                                          register |-> register, hot |-> hot])
           /\ best' = [best EXCEPT ![n] = place]
    /\ UNCHANGED <<handled, draws, elected>>

\* The order is dropped when the channel is full.
Order(n, mask) ==
    /\ elected' = elected \union {[node |-> n, mask |-> mask, view |-> best[n]]}
    /\ orders' = [orders EXCEPT ![n] = IF @ < Channel THEN @ + 1 ELSE @]

View(n) == blocks[best[n]]
Wake(n) == MayStart(n) /\ n \notin handled /\ handled' = handled \union {n}

\* The slot of a node that draws off the chain.
TickLead(n, connected) ==
    /\ Wake(n) /\ UsesChain(View(n))
    /\ \E d \in [from : {From(View(n))}, committee : SUBSET Candidates(View(n)),
                 leader : Candidates(View(n)) \union {Nobody}] :
         /\ Draw(View(n), d)
         /\ draws' = draws \union {d}
         /\ IF Leads(View(n), n, d) /\ MaySeal(n, connected)
            THEN Order(n, MaskOf(View(n), n))
            ELSE UNCHANGED <<orders, elected>>
    /\ UNCHANGED <<blocks, best>>

\* Reputation, but nobody reputable has a node.
TickSkip(n) ==
    /\ Wake(n) /\ SkipsSlot(View(n))
    /\ UNCHANGED <<blocks, best, orders, draws, elected>>

\* No reputation at all: every node is the lone station of a fresh chain.
TickStation(n, connected) ==
    /\ Wake(n) /\ Reputable(View(n)) = {}
    /\ IF MaySeal(n, connected) THEN Order(n, Nobody) ELSE UNCHANGED <<orders, elected>>
    /\ UNCHANGED <<blocks, best, draws>>

NextSlot ==
    /\ handled' = {} /\ draws' = {} /\ elected' = {}
    /\ UNCHANGED <<blocks, best, orders>>

\* A node that restarts has forgotten its orders and which slot it handled last.
Restart(n) ==
    /\ handled' = handled \ {n} /\ orders' = [orders EXCEPT ![n] = 0]
    /\ UNCHANGED <<blocks, best, draws, elected>>

\* A block of another node, once it comes, is followed if it is the higher.
Import(n) ==
    /\ \E place \in DOMAIN blocks :
         /\ blocks[place].number > View(n).number
         /\ best' = [best EXCEPT ![n] = place]
    /\ UNCHANGED <<blocks, handled, orders, draws, elected>>

InitAuthoring ==
    /\ blocks = <<[number |-> 0, past |-> {1}, register |-> GenesisRegister, hot |-> GenesisHot]>>
    /\ best = [n \in Nodes |-> 1]
    /\ handled = {} /\ orders = [n \in Nodes |-> 0]
    /\ draws = {} /\ elected = {}

NextAuthoring ==
    \/ NextSlot
    \/ \E n \in Nodes : \/ \E connected \in BOOLEAN : TickLead(n, connected) \/ TickStation(n, connected)
                        \/ TickSkip(n) \/ Author(n) \/ Restart(n) \/ Import(n)

SpecAuthoring == InitAuthoring /\ [][NextAuthoring]_authoring

-----------------------------------------------------------------------------
(* One mask leads a slot, also across branches.  Two nodes are elected for   *)
(* different masks only when their blocks have no common ancestor in the     *)
(* epoch they stand in (a branch went private before the epoch was settled,  *)
(* or a node is an epoch behind), or when a mask has got or given up its     *)
(* node between them.                                                        *)
EpochOf(b) == b.number \div EpochBlocks
ShareEpoch(b, c) ==
    \E place \in b.past \intersect c.past :
        EpochOf(blocks[place]) = EpochOf(b) /\ EpochOf(blocks[place]) = EpochOf(c)
OneMaskPerSlot ==
    \A s, t \in elected :
        LET b == blocks[s.view]
            c == blocks[t.view]
        IN  ShareEpoch(b, c) /\ HasNode(b) = HasNode(c) => s.mask = t.mask

(* No block that a node is on, or may yet come to, lets anyone lead: those   *)
(* with a key in the beacon have no node or no reputation.                   *)
Barren(b) == Reputable(b) # {} /\ Candidates(b) = {}
Stalled ==
    /\ \A n \in Nodes :
         /\ orders[n] = 0 /\ Barren(View(n))
         /\ \A place \in DOMAIN blocks :
              blocks[place].number > View(n).number => Barren(blocks[place])
=============================================================================
