------------------------------ MODULE Keyboard ------------------------------
(***************************************************************************)
(* The keyboard: the registry of shortcuts with the editor that rebinds    *)
(* them (shortcutsRegistry.ts, useRegisteredKeyboard.tsx, useKeyboard.tsx, *)
(* KeyboardShortcutsEditor.tsx), and what the keys of the tree and of the  *)
(* list do (keyboardShortcuts.ts, TreeSidebar.tsx, ResourceList.tsx).      *)
(* The two are machines of their own.                                      *)
(***************************************************************************)
EXTENDS Integers, Sequences, FiniteSets, SequencesExt

CONSTANTS
    KeyComponents,  \* components that register shortcuts
    Replaceable,    \* those that React replaces by a new one of the same id
    Tried,          \* the ids whose keys are pressed and edited
    NewKeys,        \* keys a user may type in the editor
    TreeRoots,      \* the roots of the tree, in order
    TreeKids,       \* root -> its children, resource types, in order
    ListOf,         \* resource type -> the rows of its list, in order
    PageLines,      \* how far ctrl+d and ctrl+u go
    MaxKeySteps,    \* bound on presses, unmounts, edits and relaunches
    MaxFocusSteps   \* bound on moves of the focus

ASSUME KeyboardAssumption ==
    /\ KeyComponents \subseteq {"layout", "tree", "list"}
    /\ Replaceable \subseteq KeyComponents
    /\ PageLines \in Nat \ {0}
    /\ MaxKeySteps \in Nat /\ MaxFocusSteps \in Nat

VARIABLE keySteps

-----------------------------------------------------------------------------
(***************************************************************************)
(* The shortcuts.  A key is a pair: a modifier ("" for none, "meta" for    *)
(* either of cmd and ctrl) or the first key of a sequence, and a key.  A   *)
(* shortcut's id is its component with its default keys.                   *)
(***************************************************************************)
VARIABLES
    mounted,    \* components on screen
    registry,   \* the registered ids, with their current keys
    bindings,   \* the user's own keys, by id
    storedKeys, \* the same in localStorage
    keyMaps,    \* component -> ids by key, as of its last render
    firstMaps,  \* component -> the same, as of its first render
    lastKey,    \* a plain key pressed just before, or ""
    pressed,    \* what the last key press was, and the ids that it fired
    editing,    \* the id and the keys in the editor, and the clash it shows
    chosen      \* the keys the user has chosen for an id, if any

keyVars == <<mounted, registry, bindings, storedKeys, keyMaps, firstMaps,
             lastKey, pressed, editing, chosen>>

Modifiers == {"", "meta", "meta+shift", "cmd", "ctrl", "cmd+shift", "ctrl+shift", "alt", "shift", "Shift"}
Unset == <<"", "">>
NoKey == [key |-> Unset, fired |-> {}, known |-> {}]
NotEditing == [id |-> <<"", Unset>>, keys |-> Unset, clash |-> FALSE]

\* The shortcuts of the layout; those of the tabs 1 to 9 stand as one.
LayoutKeys ==
    {<<"meta", "k">>, <<"meta+shift", "p">>, <<"meta+shift", "d">>, <<"s", "c">>,
     <<"meta", "n">>, <<"meta", ",">>, <<"ctrl", "backquote">>, <<"alt", "left">>,
     <<"alt", "right">>, <<"meta", "[">>, <<"meta", "]">>, <<"ctrl", "o">>,
     <<"ctrl", "i">>, <<"meta", "t">>, <<"meta", "w">>, <<"meta+shift", "w">>,
     <<"meta", "1">>, <<"", "Tab">>, <<"Shift", "Tab">>}
MoveKeys == {<<"", "j">>, <<"", "k">>, <<"", "down">>, <<"", "up">>,
             <<"ctrl", "d">>, <<"ctrl", "u">>}
ListKeys == MoveKeys \cup
    {<<"", "enter">>, <<"", "h">>, <<"", "l">>, <<"", "escape">>, <<"", "/">>, <<"", "r">>}
TreeKeys == MoveKeys \cup
    {<<"", "/">>, <<"meta", "f">>, <<"alt", "enter">>, <<"", "h">>, <<"", "left">>,
     <<"", "l">>, <<"", "right">>, <<"", "enter">>}
DefaultKeys(c) ==
    CASE c = "layout" -> LayoutKeys [] c = "tree" -> TreeKeys [] OTHER -> ListKeys

IdsOf(c) == {<<c, k>> : k \in DefaultKeys(c)}

\* getCurrentKeys(): "" for an id that is not registered.
CurrentKeys(id, r) == IF id \in DOMAIN r THEN r[id] ELSE Unset

\* keyMap: the ids of a component by the keys they have when it renders.
KeyMap(c, r) == {[keys |-> CurrentKeys(id, r), id |-> id] : id \in IdsOf(c)}

\* A key string of the map answers to these presses.
Expanded(k) ==
    CASE k[1] = "meta" -> {<<"cmd", k[2]>>, <<"ctrl", k[2]>>}
      [] k[1] = "meta+shift" -> {<<"cmd+shift", k[2]>>, <<"ctrl+shift", k[2]>>}
      [] OTHER -> {k}

\* getKeyString(): what the keyboard reports for a key of the tables; names
\* come in lower case.
Typed(k) ==
    CASE k = <<"", "Tab">> -> {<<"", "tab">>}
      [] k = <<"Shift", "Tab">> -> {<<"shift", "tab">>}
      [] OTHER -> Expanded(k)

KeysInit ==
    /\ mounted = {} /\ registry = <<>> /\ bindings = <<>> /\ storedKeys = <<>>
    /\ keyMaps = [c \in KeyComponents |-> {}]
    /\ firstMaps = [c \in KeyComponents |-> {}]
    /\ lastKey = "" /\ pressed = NoKey /\ editing = NotEditing /\ chosen = <<>>

Without(f, S) == [x \in DOMAIN f \ S |-> f[x]]
With(f, S, g(_)) ==
    [x \in DOMAIN f \cup S |-> IF x \in S THEN g(x) ELSE f[x]]

\* register(): the user's keys, else the default ones.
RegisteredAsDefault(c, r) ==
    LET Keys(id) == id[2] IN With(r, IdsOf(c), Keys)
Registered(c, r) ==
    LET Keys(id) == IF id \in DOMAIN bindings THEN bindings[id] ELSE id[2]
    IN  With(r, IdsOf(c), Keys)

\* notifyListeners(): every mounted component but the one still subscribing
\* renders again.
Rendered(cs, r) == [c \in KeyComponents |-> IF c \in cs THEN KeyMap(c, r) ELSE keyMaps[c]]

\* A component mounts: it renders before it registers, and subscribes after.
Mount(c) ==
    /\ c \notin mounted
    /\ mounted' = mounted \cup {c}
    /\ registry' = Registered(c, registry)
    /\ firstMaps' = [firstMaps EXCEPT ![c] = KeyMap(c, registry)]
    /\ keyMaps' = [Rendered(mounted, registry') EXCEPT ![c] = KeyMap(c, registry)]
    /\ pressed' = NoKey
    /\ UNCHANGED <<bindings, storedKeys, lastKey, editing, chosen, keySteps>>

Unmount(c) ==
    /\ c \in mounted
    /\ keySteps < MaxKeySteps /\ keySteps' = keySteps + 1
    /\ mounted' = mounted \ {c}
    /\ registry' = Without(registry, IdsOf(c))
    /\ keyMaps' = Rendered(mounted', registry')
    /\ pressed' = NoKey
    /\ UNCHANGED <<bindings, storedKeys, firstMaps, lastKey, editing, chosen>>

\* React puts a new component of the same id in the place of the old one: it
\* renders before the old one unregisters.
Replace(c) ==
    /\ c \in mounted \cap Replaceable
    /\ keySteps < MaxKeySteps /\ keySteps' = keySteps + 1
    /\ firstMaps' = [firstMaps EXCEPT ![c] = KeyMap(c, registry)]
    /\ registry' = Registered(c, Without(registry, IdsOf(c)))
    /\ keyMaps' = [Rendered(mounted, registry') EXCEPT ![c] = KeyMap(c, registry)]
    /\ pressed' = NoKey
    /\ UNCHANGED <<mounted, bindings, storedKeys, lastKey, editing, chosen>>

\* A component renders for reasons of its own.
Rerender(c) ==
    /\ c \in mounted /\ keyMaps' = Rendered({c}, registry) /\ keyMaps' # keyMaps
    /\ UNCHANGED <<mounted, registry, bindings, storedKeys, firstMaps, lastKey,
                   pressed, editing, chosen, keySteps>>

\* What a press fires in a component: a sequence found in the map its handler
\* was created with, else a key of the map it was last rendered with.
SequenceHits(c, key) ==
    {e.id : e \in {x \in firstMaps[c] : lastKey # "" /\ key[1] = "" /\ x.keys = <<lastKey, key[2]>>}}
Fired(c, key) ==
    LET hits == SequenceHits(c, key)
    IN  IF hits # {} THEN hits
        ELSE {e.id : e \in {x \in keyMaps[c] : key \in Expanded(x.keys)}}

Press(key) ==
    /\ keySteps < MaxKeySteps /\ keySteps' = keySteps + 1
    /\ editing = NotEditing
    /\ lastKey' = IF key[1] = "" THEN key[2] ELSE lastKey
    /\ pressed' = [key |-> IF key[1] = "" /\ lastKey # "" THEN <<lastKey, key[2]>> ELSE key,
                   fired |-> UNION {Fired(c, key) : c \in mounted},
                   known |-> {c \in mounted : keyMaps[c] = KeyMap(c, registry)}]
    /\ UNCHANGED <<mounted, registry, bindings, storedKeys, keyMaps, firstMaps,
                   editing, chosen>>

\* More than 700 ms without a key.
SequenceLapses ==
    /\ lastKey # "" /\ lastKey' = ""
    /\ UNCHANGED <<mounted, registry, bindings, storedKeys, keyMaps, firstMaps,
                   pressed, editing, chosen, keySteps>>

\* The editor: a row is edited, the keys typed are compared with the others',
\* and a clash has to be confirmed.
FindConflicts(keys, id) == {x \in DOMAIN registry \ {id} : registry[x] = keys}

StartEdit(id) ==
    /\ id \in DOMAIN registry /\ editing = NotEditing
    /\ editing' = [id |-> id, keys |-> registry[id], clash |-> FALSE]
    /\ pressed' = NoKey
    /\ UNCHANGED <<mounted, registry, bindings, storedKeys, keyMaps, firstMaps,
                   lastKey, chosen, keySteps>>

Capture(keys) ==
    /\ editing.id \in DOMAIN registry /\ keys # editing.keys
    /\ keySteps < MaxKeySteps /\ keySteps' = keySteps + 1
    /\ editing' = [editing EXCEPT !.keys = keys,
                                  !.clash = IF keys = Unset THEN editing.clash
                                            ELSE FindConflicts(keys, editing.id) # {}]
    /\ UNCHANGED <<mounted, registry, bindings, storedKeys, keyMaps, firstMaps,
                   lastKey, pressed, chosen>>

\* updateShortcut(): kept, stored and told to every component.
UpdateShortcut(id, keys) ==
    LET K(x) == keys
    IN  /\ bindings' = With(bindings, {id}, K) /\ storedKeys' = bindings'
        /\ registry' = [registry EXCEPT ![id] = keys]
        /\ chosen' = With(chosen, {id}, K)
        /\ keyMaps' = Rendered(mounted, registry')

\* Saving needs keys; a clash is confirmed by the user, or nothing happens.
SaveEdit ==
    /\ editing.id \in DOMAIN registry /\ editing.keys # Unset
    /\ UpdateShortcut(editing.id, editing.keys)
    /\ editing' = NotEditing
    /\ UNCHANGED <<mounted, firstMaps, lastKey, pressed, keySteps>>

CancelEdit ==
    /\ editing # NotEditing /\ editing' = NotEditing
    /\ UNCHANGED <<mounted, registry, bindings, storedKeys, keyMaps, firstMaps,
                   lastKey, pressed, chosen, keySteps>>

\* resetShortcut() of one id, and resetAllShortcuts(), which also forgets the
\* keys of ids that are not registered.
ResetTo(ids, kept) ==
    LET Keys(id) == id[2]
    IN  /\ bindings' = kept /\ storedKeys' = kept
        /\ registry' = With(registry, ids, Keys)
        /\ keyMaps' = Rendered(mounted, registry')
        /\ pressed' = NoKey
        /\ UNCHANGED <<mounted, firstMaps, lastKey, editing>>

ResetShortcut(id) ==
    /\ id \in DOMAIN registry \cap DOMAIN bindings
    /\ ResetTo({id}, Without(bindings, {id}))
    /\ chosen' = Without(chosen, {id})
    /\ UNCHANGED keySteps

ResetAll ==
    /\ bindings # <<>>
    /\ ResetTo(DOMAIN registry, <<>>)
    /\ chosen' = <<>>
    /\ UNCHANGED keySteps

\* A new launch reads the stored keys before anything mounts.
KeysRelaunch ==
    /\ keySteps < MaxKeySteps /\ keySteps' = keySteps + 1
    /\ mounted' = {} /\ registry' = <<>> /\ bindings' = storedKeys
    /\ keyMaps' = [c \in KeyComponents |-> {}]
    /\ firstMaps' = [c \in KeyComponents |-> {}]
    /\ lastKey' = "" /\ pressed' = NoKey /\ editing' = NotEditing
    /\ UNCHANGED <<storedKeys, chosen>>

\* The presses a run tries: the keys of the ids in Tried and the new ones, a
\* sequence one key at a time.
TriedKeys == NewKeys \cup {id[2] : id \in Tried}
IsSequence(k) == k[1] \notin Modifiers
Presses ==
    UNION {IF IsSequence(k) THEN {<<"", k[1]>>, <<"", k[2]>>} ELSE Typed(k) : k \in TriedKeys}

KeysNext ==
    \/ \E c \in KeyComponents : Mount(c) \/ Unmount(c) \/ Replace(c) \/ Rerender(c)
    \/ \E k \in Presses : Press(k)
    \/ SequenceLapses
    \/ \E id \in Tried : StartEdit(id) \/ ResetShortcut(id)
    \/ \E k \in NewKeys \cup {Unset} : Capture(k)
    \/ SaveEdit \/ CancelEdit \/ ResetAll \/ KeysRelaunch

\* The keys a user chose for a shortcut are its keys whenever it is
\* registered: after its component is gone and back, and after a relaunch.
\* A press fires only shortcuts that have those keys now, and, in a component
\* that has rendered since its registration, all of them.
KeysAreTheUsers ==
    /\ \A id \in DOMAIN registry :
          registry[id] = IF id \in DOMAIN chosen THEN chosen[id] ELSE id[2]
    /\ \A id \in pressed.fired :
          \/ CurrentKeys(id, registry) = pressed.key
          \/ pressed.key \in Expanded(CurrentKeys(id, registry))
          \/ <<"", pressed.key[2]>> = CurrentKeys(id, registry)
    /\ \A c \in pressed.known : \A id \in IdsOf(c) :
          ~IsSequence(pressed.key) /\ pressed.key \in Expanded(CurrentKeys(id, registry))
              => id \in pressed.fired

\* "support simple two-key sequences like 's+c' (no modifiers)": pressing the
\* two keys of a sequence fires its shortcut once its component has rendered.
\* No run claims it: the code does not keep it (README, Disagreements).
SequencesFire ==
    \A c \in pressed.known : \A id \in IdsOf(c) :
        IsSequence(pressed.key) /\ CurrentKeys(id, registry) = pressed.key
            => id \in pressed.fired

-----------------------------------------------------------------------------
(***************************************************************************)
(* The focus.  The tree, the list and the details take the keys in turn;   *)
(* `cursor' is the row of the tree the keyboard is on, `picked' the row of *)
(* the list.                                                               *)
(***************************************************************************)
VARIABLES
    area,       \* focusArea
    cursor,     \* focusedNodeId
    expandedRows, kidsLoaded, \* roots shown open, and those whose children are known
    folded,     \* roots whose section is collapsed
    listNode, rows, picked, \* the resource type shown, its rows, the one selected
    details,    \* "none", "shown" or "collapsed"
    searching,  \* the search field of the tree has the keyboard
    moved       \* the last step was a move by the keyboard

focusVars == <<area, cursor, expandedRows, kidsLoaded, folded, listNode, rows,
               picked, details, searching, moved>>

Roots == ToSet(TreeRoots)
Nothing == "none"
Kids(n) == IF n \in Roots /\ n \in kidsLoaded THEN TreeKids[n] ELSE <<>>
ParentOf(n) == CHOOSE r \in Roots : n \in ToSet(TreeKids[r])

\* getAllNodes() over visibleRoots(): what is on screen, in order.
RowsOfTree(roots, open) ==
    FlattenSeq([i \in DOMAIN roots |->
        <<roots[i]>> \o IF roots[i] \in open THEN Kids(roots[i]) ELSE <<>>])
AllNodes == RowsOfTree(TreeRoots, Roots)
OnScreen ==
    LET Shown(r) == r \notin folded IN RowsOfTree(SelectSeq(TreeRoots, Shown), expandedRows)

IndexIn(s, x) == IF x \in ToSet(s) THEN CHOOSE i \in DOMAIN s : s[i] = x ELSE 0

FocusInit ==
    /\ area = "tree" /\ cursor = Nothing /\ expandedRows = {} /\ kidsLoaded = {}
    /\ folded = {} /\ listNode = Nothing /\ rows = <<>> /\ picked = Nothing
    /\ details = "none" /\ searching = FALSE /\ moved = "no"

TreeHasKeys == area = "tree" /\ ~searching
Stepped == keySteps < MaxFocusSteps /\ keySteps' = keySteps + 1

\* navigate(): from the row found, past either end to the other.
WalkedFrom(s, i, up, lines) ==
    IF up THEN IF i > 1 THEN s[IF i - lines < 1 THEN 1 ELSE i - lines] ELSE s[Len(s)]
    ELSE IF i < Len(s) THEN s[IF i + lines > Len(s) THEN Len(s) ELSE i + lines] ELSE s[1]
Walked(up, lines) == WalkedFrom(OnScreen, IndexIn(OnScreen, cursor), up, lines)

TreeMove(up, lines) ==
    /\ Stepped /\ TreeHasKeys /\ OnScreen # <<>>
    /\ cursor' = Walked(up, lines) /\ moved' = "tree"
    /\ UNCHANGED <<area, expandedRows, kidsLoaded, folded, listNode, rows, picked,
                   details, searching>>

\* h and left: close the row, or go to its parent when it is on screen.
TreeLeft ==
    /\ Stepped /\ TreeHasKeys /\ cursor # Nothing
    /\ IF cursor \in expandedRows
       THEN expandedRows' = expandedRows \ {cursor} /\ UNCHANGED cursor
       ELSE /\ cursor' = IF cursor \in ToSet(OnScreen) /\ cursor \notin Roots
                         THEN ParentOf(cursor) ELSE cursor
            /\ UNCHANGED expandedRows
    /\ moved' = "no"
    /\ UNCHANGED <<area, kidsLoaded, folded, listNode, rows, picked, details,
                   searching>>

\* selectNode() and openResourceListTab(): the list of a resource type.
OpensList(n) ==
    /\ listNode' = n /\ rows' = ListOf[n] /\ cursor' = n
    /\ picked' = IF n = listNode THEN picked ELSE Nothing

\* handleNodeClick(): a resource type opens its list, any other row opens or
\* closes.
NodeClick(n) ==
    IF n \in Roots
    THEN /\ cursor' = n
         /\ expandedRows' = IF n \in expandedRows THEN expandedRows \ {n} ELSE expandedRows \cup {n}
         /\ UNCHANGED <<listNode, rows, picked>>
    ELSE OpensList(n) /\ UNCHANGED expandedRows

MouseClick(n) ==
    /\ Stepped /\ n \in ToSet(OnScreen)
    /\ NodeClick(n) /\ area' = "tree" /\ moved' = "no" /\ searching' = FALSE
    /\ UNCHANGED <<kidsLoaded, folded, details>>

\* l and right: open the row, or go to its first child.
TreeRight ==
    /\ Stepped /\ TreeHasKeys /\ cursor # Nothing
    /\ CASE cursor \notin Roots -> NodeClick(cursor)
         [] cursor \in Roots \ expandedRows ->
              expandedRows' = expandedRows \cup {cursor} /\ UNCHANGED <<cursor, listNode, rows, picked>>
         [] OTHER -> /\ cursor' = IF Kids(cursor) = <<>> THEN cursor ELSE Head(Kids(cursor))
                     /\ UNCHANGED <<expandedRows, listNode, rows, picked>>
    /\ moved' = "no"
    /\ UNCHANGED <<area, kidsLoaded, folded, details, searching>>

TreeEnter ==
    /\ Stepped /\ TreeHasKeys /\ cursor # Nothing
    /\ NodeClick(cursor) /\ moved' = "no"
    /\ UNCHANGED <<area, kidsLoaded, folded, details, searching>>

\* expandNode() has the children of an open row.
KidsArrive(n) ==
    /\ n \in expandedRows \ kidsLoaded /\ kidsLoaded' = kidsLoaded \cup {n}
    /\ UNCHANGED <<area, cursor, expandedRows, folded, listNode, rows, picked,
                   details, searching, moved, keySteps>>

ToggleSection(n) ==
    /\ Stepped
    /\ folded' = (IF n \in folded THEN folded \ {n} ELSE folded \cup {n})
    /\ moved' = "no"
    /\ UNCHANGED <<area, cursor, expandedRows, kidsLoaded, listNode, rows, picked,
                   details, searching>>

\* "/" and escape: the search field takes the keyboard and gives it back.
TreeSearch ==
    /\ Stepped /\ searching' = ~searching
    /\ UNCHANGED <<area, cursor, expandedRows, kidsLoaded, folded, listNode, rows,
                   picked, details, moved>>

\* navigateList(): the selected row is found by its key, since updates
\* replace its object; a row that is gone counts as the one before the first.
ListMove(up, lines) ==
    LET i == IndexIn(rows, picked)
        k == IF up THEN i - lines ELSE i + lines
    IN  /\ Stepped /\ area = "list" /\ rows # <<>>
        /\ picked' = rows[IF k < 1 THEN 1 ELSE IF k > Len(rows) THEN Len(rows) ELSE k]
        /\ moved' = "list"
        /\ UNCHANGED <<area, cursor, expandedRows, kidsLoaded, folded, listNode, rows,
                       details, searching>>

\* enter and l: the details of the selected row.
ListOpen ==
    /\ Stepped /\ area = "list" /\ picked # Nothing
    /\ details' = "shown" /\ moved' = "no"
    /\ UNCHANGED <<area, cursor, expandedRows, kidsLoaded, folded, listNode, rows,
                   picked, searching>>

\* h and escape in the list, h in the details, escape that closes the details
\* wherever the focus is.
LeaveArea(key) ==
    /\ Stepped
    /\ area' = CASE area = "list" -> "tree"
                 [] area = "detail" /\ key = "h" -> "list"
                 [] OTHER -> area
    /\ details' = IF key = "escape" /\ details = "shown" THEN "collapsed" ELSE details
    /\ <<area', details'>> # <<area, details>> /\ moved' = "no"
    /\ UNCHANGED <<cursor, expandedRows, kidsLoaded, folded, listNode, rows, picked,
                   searching>>

TogglePanel ==
    /\ Stepped /\ details # "none"
    /\ details' = (IF details = "shown" THEN "collapsed" ELSE "shown")
    /\ UNCHANGED <<area, cursor, expandedRows, kidsLoaded, folded, listNode, rows,
                   picked, searching, moved>>

\* getNextArea() and getPrevArea().
NextArea ==
    CASE area = "tree" -> IF rows # <<>> THEN "list" ELSE IF details # "none" THEN "detail" ELSE "tree"
      [] area = "list" -> IF details # "none" THEN "detail" ELSE "tree"
      [] OTHER -> IF details # "collapsed" THEN "tree" ELSE "detail"
PrevArea ==
    CASE area = "tree" -> IF details = "shown" THEN "detail" ELSE IF rows # <<>> THEN "list" ELSE "tree"
      [] area = "list" -> "tree"
      [] OTHER -> IF rows # <<>> THEN "list" ELSE "tree"

\* Under keys the user has given them.
FocusNextArea ==
    /\ Stepped /\ area' \in {NextArea, PrevArea} /\ area' # area /\ moved' = "no"
    /\ UNCHANGED <<cursor, expandedRows, kidsLoaded, folded, listNode, rows, picked,
                   details, searching>>

ClickList ==
    /\ Stepped /\ listNode # Nothing /\ area # "list" /\ area' = "list" /\ moved' = "no"
    /\ UNCHANGED <<cursor, expandedRows, kidsLoaded, folded, listNode, rows, picked,
                   details, searching>>

\* A watch event takes a row away.
RowGoes(r) ==
    /\ Stepped /\ r \in ToSet(rows)
    /\ LET Other(x) == x # r IN rows' = SelectSeq(rows, Other)
    /\ moved' = "no"
    /\ UNCHANGED <<area, cursor, expandedRows, kidsLoaded, folded, listNode, picked,
                   details, searching>>

FocusNext ==
    \/ \E up \in BOOLEAN, n \in {1, PageLines} : TreeMove(up, n) \/ ListMove(up, n)
    \/ TreeLeft \/ TreeRight \/ TreeEnter \/ TreeSearch
    \/ \E n \in Roots : KidsArrive(n) \/ ToggleSection(n)
    \/ \E n \in ToSet(AllNodes) : MouseClick(n)
    \/ ListOpen \/ TogglePanel \/ FocusNextArea \/ ClickList
    \/ \E k \in {"h", "escape"} : LeaveArea(k)
    \/ \E r \in ToSet(rows) : RowGoes(r)

\* "Keyboard navigation walks only what is on screen": whatever was folded,
\* closed, loaded or deleted under it, the cursor lands on a row of the tree
\* that is drawn, and the selection on a row the list has.
WalksOnScreen ==
    /\ moved = "tree" => cursor \in ToSet(OnScreen)
    /\ moved = "list" => picked \in ToSet(rows)

keyboardVars == <<keyVars, focusVars, keySteps>>

\* The keys are the user's, and move what the user sees.
KeyboardServesTheUser == KeysAreTheUsers /\ WalksOnScreen
=============================================================================
