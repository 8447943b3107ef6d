---------------------------- MODULE MCMerkleTree ----------------------------
(* Keys of three bits and a depth of two: the ids 0 and 1 are two leaves of *)
(* one node.                                                                *)
(* Two calls that meet each other, a clear and computations, or longer      *)
(* sequences of calls that meet computations only.                          *)
(* In an initial state without calls a market maker runs instead: two       *)
(* markets and a feed of small and large levels, some of one side only.     *)
EXTENDS MerkleTree, MarketMirror

CONSTANTS m1, m2

Budget(update, clear, compute, crowd, batch) ==
    [update |-> update, clear |-> clear, compute |-> compute, crowd |-> crowd,
     batch |-> batch]

TreeBudgets ==
    {Budget(3, 0, 1, 2, 1), Budget(2, 0, 2, 2, 1), Budget(2, 0, 1, 3, 1),
     Budget(1, 1, 2, 2, 1), Budget(1, 0, 2, 3, 1), Budget(1, 0, 2, 2, 2)}

TreeSymmetry == Permutations(Updaters) \cup Permutations(Computers) \cup Permutations(Versions)

NoCalls == [update |-> 0, clear |-> 0, compute |-> 0, crowd |-> 1, batch |-> 1]
MCBudgets == TreeBudgets \cup {NoCalls}

L(price, qty) == [price |-> price, qty |-> qty]
Message(m, bids, asks) == [market |-> m, bids |-> bids, asks |-> asks]

MCMessages ==
    {Message(m1, <<L(5, 2)>>, <<L(8, 20)>>),
     Message(m1, <<L(5, 3), L(6, 20)>>, <<>>),
     Message(m1, <<>>, <<L(9, 2), L(8, 22)>>),
     Message(m1, <<L(7, 0)>>, <<>>),
     Message(m2, <<L(5, 2)>>, <<L(8, 2)>>)}

MCDepth == <<1, 2>>

MCInit == Init /\ MirrorInit /\ (version = 1 => budget = NoCalls)

\* Version 1 has one market, and no orders left when the next message comes.
MCNext ==
    \/ Next /\ UNCHANGED mirrorVars
    \/ /\ budget = NoCalls /\ Init
       /\ MirrorNext /\ UNCHANGED vars
       /\ version = 1 => quote'.messages < 2 /\ quote'.market # m2

MCSpec == MCInit /\ [][MCNext]_<<vars, mirrorVars>>
=============================================================================
