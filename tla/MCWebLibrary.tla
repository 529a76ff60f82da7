---------------------------- MODULE MCWebLibrary ----------------------------
(***************************************************************************)
(* WebLibrary for TLC, with the editor of a manifest's conditional blocks  *)
(* as one more tab: its module computes on trees with RECURSIVE operators, *)
(* and what is proved of WebLibrary does not reach it.                     *)
(***************************************************************************)
EXTENDS WebLibrary

CONSTANTS MaxMade, MaxBlockDepth, MaxBlockEdits

VARIABLES blocks, made, blockEdits

blockVars == <<blocks, made, blockEdits>>

CB == INSTANCE ConditionalBlocks WITH
        Predicates <- {"p"}, Software <- {"x", "y"}, Includes <- {"m"}

ASSUME BlocksAssumption == CB!BlocksAssumption

\* Names that look like a version at their end: "a" is a letter, "e" one outside
\* ASCII, "1" a digit.
FilesLikeVersions ==
    {[stem |-> <<"a", "-", "1">>, kind |-> "pkg", version |-> <<"1", ".", "1">>],
     [stem |-> <<"a", "-", "1">>, kind |-> "dmg", version |-> <<>>],
     [stem |-> <<"a">>, kind |-> "pkg", version |-> <<"a", "1">>]}
NamesLikeVersions ==
    {<<"a", "-", "1", "-", "1", ".", "1">>, <<"a", " ", "a", "1">>, <<" ">>,
     <<"a", "-", "1", "e">>}

\* "p-3" reads as version 3 of "p".
ItemsLikeVersions == {<<"p">>, <<"p", "-", "3">>}
OneVersion == {<<"3">>}
PinnedAtFirst == <<"p">>

\* New software waits for an approval, and its rollout takes two days.
WaitingPrefs == [enabled |-> TRUE, days |-> 2, policy |-> "skip_until_approved"]

-----------------------------------------------------------------------------
LibraryInit ==
    /\ Init /\ CB!Init
    /\ tab # "blocks" => blocks = <<>>

LibraryNext ==
    \/ Next /\ UNCHANGED blockVars
    \/ tab = "blocks" /\ CB!Next /\ UNCHANGED vars

LibrarySpec == LibraryInit /\ [][LibraryNext]_<<vars, blockVars>>

-----------------------------------------------------------------------------
(* The tree stays a tree of blocks, what is saved of it is what was shown, *)
(* and a click touches one block.                                          *)
BlocksAreKept == [](CB!BlocksTypeOK /\ CB!SavedIsShown) /\ CB!OneBlockAtATime
=============================================================================
