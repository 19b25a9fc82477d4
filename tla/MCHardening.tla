---------------------------- MODULE MCHardening ----------------------------
(***************************************************************************)
(* Contracts of two blocks and the exit block: calls and stores in any     *)
(* order, with loops, early exits and failing ends.                        *)
(***************************************************************************)
EXTENDS Hardening

CONSTANTS Extra  \* calls some contracts make beside call and storageStore

Bodies == {<< >>, <<"call">>, <<"storageStore">>, <<"call", "storageStore">>,
           <<"storageStore", "call">>}
Ends == Bodies \union {<<"revert">>, <<"call", "revert">>, <<"storageStore", "unreachable">>}

Made(b1, s1, b2, s2) ==
  [code |-> <<b1, b2, <<"finish">> >>,
   succ |-> <<s1, IF b2 # << >> /\ b2[Len(b2)] \in Leaves THEN {3} ELSE s2, {}>>]

MCPlain ==
  {Made(b1, s1, b2, s2) :
     b1 \in Bodies, s1 \in {{2}, {2, 3}, {1, 3}}, b2 \in Ends, s2 \in {{3}, {1, 3}}}

\* Contracts that also end or call in the ways named by Extra.
MCExtraContracts ==
  {Made(b1, {2}, <<x>> \o b2, {3}) :
     b1 \in {<< >>, <<"call">>}, x \in Extra \ Leaves,
     b2 \in {<< >>, <<"storageStore">>, <<"call", "storageStore">>}}
  \union {Made(b1, {2, 3}, <<x>>, {3}) : b1 \in Bodies, x \in Extra \intersect Leaves}

MCContracts == MCPlain \union MCExtraContracts

Opt(r, e, s) ==
  [checkReentrancy |-> r, EOAonly |-> e, checkSend |-> s, vulpc |-> <<1, 1>>]
MCOptionSets ==
  {Opt(TRUE, FALSE, FALSE), Opt(TRUE, TRUE, FALSE), Opt(TRUE, FALSE, TRUE), Opt(FALSE, TRUE, TRUE)}
MCLibraries == SUBSET LibraryWrites
=============================================================================
