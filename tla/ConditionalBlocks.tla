------------------------- MODULE ConditionalBlocks -------------------------
(***************************************************************************)
(* The conditional items of a manifest (lib/manifest-conditional-items and *)
(* components/manifest-conditional-blocks-editor): a tree of blocks, each  *)
(* with a predicate, lists of software, included manifests and nested      *)
(* blocks.  Every button of a card rewrites the whole tree along the path  *)
(* of its block.  The six lists of a block are one set of items.           *)
(***************************************************************************)
EXTENDS Naturals, Sequences, FiniteSets, SequencesExt

CONSTANTS
    Predicates,     \* texts of a condition that are not blank
    Software, Includes,
    MaxMade,        \* bound: blocks added by the operator
    MaxBlockDepth,  \* bound: nesting
    MaxBlockEdits   \* bound: changes to the content of a block, moves and removals

BlocksAssumption ==
    /\ Predicates # {} /\ {"blank", "absent"} \cap Predicates = {}
    /\ {MaxMade, MaxBlockDepth, MaxBlockEdits} \subseteq Nat

VARIABLES blocks, made, blockEdits
blockVars == <<blocks, made, blockEdits>>

-----------------------------------------------------------------------------
\* The list of blocks a path of indices leads into, and the tree with that
\* list replaced; a path names a block by the lists' indices down to it.
RECURSIVE SiblingsAt(_, _), WithSiblings(_, _, _), Paths(_)
SiblingsAt(list, parentPath) ==
    IF parentPath = <<>> THEN list
    ELSE SiblingsAt(list[Head(parentPath)].conditional_items, Tail(parentPath))

WithSiblings(list, parentPath, siblings) ==
    IF parentPath = <<>> THEN siblings
    ELSE [list EXCEPT ![Head(parentPath)].conditional_items =
              WithSiblings(@, Tail(parentPath), siblings)]

Paths(list) ==
    UNION {{<<i>>} \cup {<<i>> \o p : p \in Paths(list[i].conditional_items)} : i \in DOMAIN list}

getBlockAtPath(list, path) == SiblingsAt(list, Front(path))[Last(path)]

\* Mutant: the block is written at the top of the tree.
setBlockAtPath_Root(list, path, next) == [list EXCEPT ![Head(path)] = next]

setBlockAtPath(list, path, next) ==
    WithSiblings(list, Front(path), [SiblingsAt(list, Front(path)) EXCEPT ![Last(path)] = next])
removeBlockAtPath(list, path) ==
    WithSiblings(list, Front(path), RemoveAt(SiblingsAt(list, Front(path)), Last(path)))
appendNestedBlockAtPath(list, path, child) ==
    WithSiblings(list, path, Append(SiblingsAt(list, path), child))
reorderBlockAmongSiblings(list, parentPath, from, to) ==
    LET siblings == SiblingsAt(list, parentPath)
    IN  WithSiblings(list, parentPath, InsertAt(RemoveAt(siblings, from), to, siblings[from]))

moveBlockInTree(list, path, delta) ==
    LET index == Last(path)
        newIdx == IF delta = "up" THEN index - 1 ELSE index + 1
    IN  IF newIdx \notin DOMAIN SiblingsAt(list, Front(path)) THEN list
        ELSE reorderBlockAmongSiblings(list, Front(path), index, newIdx)

-----------------------------------------------------------------------------
(* From and to the API.  An entry of the top level without a condition is  *)
(* skipped; a nested one is kept with a blank condition.                   *)
RECURSIVE NormalizeAll(_, _), SerializeAll(_), validateBlockRecursive(_)
normalizeBlock(raw, uiId) ==
    [uiId |-> uiId,
     condition |-> IF raw.condition = "absent" THEN "blank" ELSE raw.condition,
     items |-> raw.items, included_manifests |-> raw.included_manifests,
     conditional_items |-> NormalizeAll(raw.conditional_items, uiId)]
NormalizeAll(raws, path) == [i \in DOMAIN raws |-> normalizeBlock(raws[i], Append(path, i))]

parseConditionalItemsFromApi(raws) ==
    NormalizeAll(SelectSeq(raws, LAMBDA raw : raw.condition # "absent"), <<>>)

\* A block whose condition is blank is dropped, with all it holds.
serializeOneBlock(b) ==
    [condition |-> b.condition, items |-> b.items,
     included_manifests |-> b.included_manifests,
     conditional_items |-> SerializeAll(b.conditional_items)]
SerializeAll(list) ==
    LET kept == SelectSeq(list, LAMBDA b : b.condition # "blank")
    IN  [i \in DOMAIN kept |-> serializeOneBlock(kept[i])]

serializeConditionalItemsForApi(list) == SerializeAll(list)

validateBlockRecursive(b) ==
    /\ b.condition # "blank"
    /\ \A i \in DOMAIN b.conditional_items : validateBlockRecursive(b.conditional_items[i])

\* Save goes on only when no block has a blank condition.
validateConditionalBlocks(list) == \A i \in DOMAIN list : validateBlockRecursive(list[i])

-----------------------------------------------------------------------------
newConditionalBlock ==
    [uiId |-> <<0, made>>, condition |-> CHOOSE c \in Predicates : TRUE,
     items |-> {}, included_manifests |-> {}, conditional_items |-> <<>>]

Create(next) ==
    /\ made < MaxMade /\ made' = made + 1
    /\ blocks' = next
    /\ UNCHANGED blockEdits
AddBlock == Create(Append(blocks, newConditionalBlock))
AddNestedBlock(path) ==
    Len(path) < MaxBlockDepth /\ Create(appendNestedBlockAtPath(blocks, path, newConditionalBlock))

Change(next) ==
    /\ blockEdits < MaxBlockEdits /\ blockEdits' = blockEdits + 1
    /\ blocks' = next
    /\ UNCHANGED made
MoveBlock(path) == \E delta \in {"up", "down"} : Change(moveBlockInTree(blocks, path, delta))
RemoveBlock(path) == Change(removeBlockAtPath(blocks, path))

patchBlock(path, field, value) ==
    Change(setBlockAtPath(blocks, path, [getBlockAtPath(blocks, path) EXCEPT ![field] = value]))
EditCondition(path) ==
    \E c \in Predicates \cup {"blank"} : patchBlock(path, "condition", c)
AddIncludedManifestButton(path) ==
    LET names == getBlockAtPath(blocks, path).included_manifests
    IN  \E m \in Includes \ names : patchBlock(path, "included_manifests", names \cup {m})
ConditionalIncludedManifests(path) ==
    LET names == getBlockAtPath(blocks, path).included_manifests
    IN  \/ AddIncludedManifestButton(path)
        \/ \E m \in names : patchBlock(path, "included_manifests", names \ {m})
setSectionItems(path) ==
    LET items == getBlockAtPath(blocks, path).items
    IN  \/ \E x \in Software \ items : patchBlock(path, "items", items \cup {x})
        \/ \E x \in items : patchBlock(path, "items", items \ {x})
replaceSectionItem(path) ==
    LET items == getBlockAtPath(blocks, path).items
    IN  \E old \in items, new \in Software \ items : patchBlock(path, "items", (items \ {old}) \cup {new})

CardHeader(path) == MoveBlock(path) \/ RemoveBlock(path) \/ EditCondition(path)
CardBody(path) ==
    \/ ConditionalIncludedManifests(path)
    \/ setSectionItems(path) \/ replaceSectionItem(path)
    \/ AddNestedBlock(path)

-----------------------------------------------------------------------------
\* What another tool may have stored: nested blocks, one without a condition.
Raw(condition, items, nested) ==
    [condition |-> condition, items |-> items, included_manifests |-> {}, conditional_items |-> nested]
RawDocuments ==
    LET leaf(c) == Raw(c, Software, <<>>)
    IN  {<<>>} \cup {<<leaf("absent"), Raw(c, {}, <<leaf(c), leaf(d)>>)>> :
                         c \in Predicates, d \in Predicates \cup {"absent"}}

Init ==
    /\ blocks \in {parseConditionalItemsFromApi(raws) : raws \in RawDocuments}
    /\ made = 0 /\ blockEdits = 0

Next == AddBlock \/ \E path \in Paths(blocks) : CardHeader(path) \/ CardBody(path)

Spec == Init /\ [][Next]_blockVars

-----------------------------------------------------------------------------
\* Every block with its parent; the root has <<>> for one.
Flat(list) ==
    {LET b == getBlockAtPath(list, p) IN
     [id |-> b.uiId,
      parent |-> IF Len(p) = 1 THEN <<>> ELSE getBlockAtPath(list, Front(p)).uiId,
      own |-> <<b.condition, b.items, b.included_manifests>>] : p \in Paths(list)}

BlocksTypeOK ==
    /\ \A p \in Paths(blocks) :
           LET b == getBlockAtPath(blocks, p) IN
           /\ b.condition \in Predicates \cup {"blank"}
           /\ b.items \subseteq Software /\ b.included_manifests \subseteq Includes
    /\ made \in 0..MaxMade /\ blockEdits \in 0..MaxBlockEdits

(* A document the page agrees to save comes back as it was shown: the      *)
(* serialiser, which drops blank blocks with all they hold, drops nothing  *)
(* the validation lets through, at any depth.                              *)
RECURSIVE Shape(_)
Shape(list) ==
    [i \in DOMAIN list |-> <<list[i].condition, list[i].items, list[i].included_manifests,
                             Shape(list[i].conditional_items)>>]
SavedIsShown ==
    validateConditionalBlocks(blocks) =>
        Shape(parseConditionalItemsFromApi(serializeConditionalItemsForApi(blocks))) = Shape(blocks)

(* A click on the card of one block touches that block: no other block     *)
(* changes its content or its parent, no two blocks share the identity the *)
(* page keys them by, and what disappears is one block and what it holds.  *)
OneBlockAtATime ==
    [][LET old == Flat(blocks)
           new == Flat(blocks')
           gone == {x \in old : \A y \in new : y.id # x.id}
       IN  /\ Cardinality(new) = Cardinality(Paths(blocks'))
           /\ \A x \in old, y \in new : x.id = y.id => x.parent = y.parent
           /\ Cardinality({x \in old \ gone : x \notin new}) <= IF gone = {} THEN 1 ELSE 0
           /\ Cardinality({x \in gone : \A y \in gone : y.id # x.parent}) <= 1]_blocks
=============================================================================
