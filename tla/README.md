# hello-phoenix in TLA+

Specifications, model-checking runs and machine-checked proofs for the
programs of this repository: **phoenix**, byuu's cross-platform GUI toolkit
(`src/phoenix`), **nall**, the support library under it (`src/nall`), and the
example application **hello** (`src/hello`).

Phoenix keeps the state of every window, layout, widget and menu in portable
objects (`src/phoenix/core`), and each backend (Windows, GTK, Qt, Cocoa, the
empty reference backend) mirrors that state into native controls and reports
what the user does to them. Almost everything that can go wrong goes wrong
between the two: native controls are destroyed and made again when a widget
changes place, notifications arrive for changes the program itself made,
objects are destroyed while others still point at them. That is what the
modules are about. Single controls (combo buttons, lists, tabs, sliders, timers)
are modelled over all four toolkits, because the toolkits differ exactly there;
the tree of widgets, radio groups, menus, frames and modal windows over the Windows
backend, the one the repository ships binaries for.

Under the toolkit sit data structures that other programs of the author drive
hard (emulators schedule with `priority_queue`, patchers go through `file`, and
everything is kept in `vector`): those are modelled on their own, against abstract
specifications of what they promise.

## Inventory

The last column names the modules. `PROJECT.json` says for each component what is
modelled and what is left out, with its source files.

| Component | State | Operations | Interacts with | What is hard, and the properties that make it correct | Modelled by |
|---|---|---|---|---|---|
| Tree of sizables: `Window`, `Sizable`, `Layout`, `Frame`, `TabFrame` | parent, window and visibility of every sizable; children of layouts, content of holders; the window's layouts and its flat list of widgets; the parent HWND of each widget | append, remove and destroy in any order; setLayout; setVisible; registration with re-creation of HWNDs | every widget; the native window | Subtrees built in or out of the window, re-appended, removed, freed and reused. Parents and children agree; the flat list follows the tree; HWNDs are in the right parent and shown when all above is visible | `SizableTree` |
| Radio groups: `RadioButton`, `RadioLabel` | each item's copy of its group, its checked flag, the native check mark | group, setChecked, activation, re-creation, destruction | callbacks, tree (re-creation) | Copies of a group that disagree, dangling members, marks lost on re-creation. One choice at most; the screen shows the state | `RadioGroup` |
| `ComboButton` | rows and selection in the object and in the native control | append, remove, reset, setText, setSelection; native notifications; re-creation | callbacks, native control | Notifications for the program's own changes, indices that go stale when rows go. The two sides agree; a callback comes for each change of the user's and for no other | `Combo`, `Chooser` |
| `ListView` | the same, and check marks; Qt's role of each row | the same, setChecked, setSelected | callbacks, native control | Marks written to the wrong row, a selection that outlives its row | `ListRows` |
| `TabFrame`'s tabs | selection, tab in front, which layouts are shown | append, remove, setSelection, setLayout; the user's clicks | tree | One tab in front and its layout the only one shown | `TabStrip` |
| Sliders and scrollers | length, position, native maximum and value | setLength, setPosition, the user's moves, re-creation | callbacks | Positions the native side clamps and the object does not | `Slider` |
| Timers | static list of timers, native sources, posted messages | construction, destruction, setEnabled, setInterval, the tick | event loop, callbacks | Ticks in flight when a timer is disabled or destroyed. One source each, no late tick, and ticking never stops | `Timers` |
| Menus: `Menu`, `CheckItem`, `RadioItem` (`Item`, `Separator`) | the action lists, parent menu and window, native menus | append, remove, setEnabled, setVisible, checking, destruction; the user's choice | window | Native menus are made again as a whole on each change. They show the tree of actions; nothing destroyed is in it | `Menus` |
| Windows' frames: geometry, full screen, menu and status visibility | geometry, style, bars, `locked` | setGeometry, setFullScreen, setResizable, the bars, setVisible; the user's drags | native window | Outer and inner sizes converted back and forth with what the bars and borders take just now. The client area asked for is the one there is | `Frames` |
| Box layouts' geometry | sizes, spacings, margin, unsigned 32-bit | `minimumSize`, `setGeometry` | tree | Unsigned subtraction that wraps when the window is too small. Children do not overlap and stay inside | `Boxes` |
| Modal windows and the event loop | `modal` list, `Application::state.quit`, each window's modal and visible flags | setModal, setVisible, close, quit, nested loops | every window | Nested loops that end in the wrong order or never. The innermost modal window gets the input; every loop ends once its window is let go | `ModalLoop` |
| `vector` | pool, base, size, count; unsigned | both ends, access, resize, reserve, remove, reverse, copy, move | used everywhere | Objects anywhere in their pool; growth and arguments that alias an element; counts that wrap. It is a sequence | `Vector`, `DataLists` |
| `set`, `hashset` | a red-black tree; an open-addressing table | insert, remove, find, reserve, reset | used everywhere | Rebalancing; probe chains broken by removal. They are sets | `SetTree`, `HashSet`, `ValueSet` |
| `priority_queue` | a heap by counters modulo 2^32, a clock | enqueue, dequeue, tick, reset | callbacks that re-enter | Counters that wrap. Events fire on time and in order | `PriorityQueue`, `Agenda` |
| `file` | a buffered page of the file, offsets | open, read, write, seek, truncate, flush, close | file system | One buffer for reads and writes. What is read is what was written | `BufferedFile`, `ByteFile` |
| Patches: `ups`, `bps` (`beat`) | cursors over byte arrays | create (linear and delta), apply | file | Relative signed offsets in variable-length numbers, copies that read what they write. A patch made can be applied | `Patches` |
| `ProgressBar`, `HexEdit` | one value; offset and rows of the hex editor | set; scrolling and keys | callbacks | | not modelled |
| `Canvas`, `Viewport`, `Label`, `Button`, `LineEdit`, `TextEdit`, `Console`, `CheckButton` | one value mirrored to one control | set and get | callbacks | Little: one assignment and one native call each | not modelled |
| `BrowserWindow`, `MessageWindow`, `Desktop`, `Font`, `Keyboard`, `Mouse` | none, or the last poll | blocking native dialogs and queries | native side | Pure I/O | not modelled |
| Reference backend | none | empty bodies | core | Nothing to model | not modelled |
| `string`, `lstring`, formatting, evaluators, markup | character pools with one of three allocators | copy, append, split, replace, parse | used everywhere | Buffers that move between the object and the heap; parsers | not modelled |
| `group`, `any`, `function`, linked lists; `ips`, `inflate`, `zip`, `gzip`, `png`; codecs and hashes; `serializer`, `thread`, `dsp`, `image`, `random`, `serial`, `http`, `smtp`, `odbc`, `dl`, `input`, `config` | various | | operating system | Data formats, numeric code and I/O | not modelled |
| hello (`src/hello`), `phoenix/.test` | their widgets | `reflow`, the buttons, the timer | phoenix | Read for what clients do and expect | not modelled |

## How the parts interact

- The **program** calls setters of core objects. A setter writes the object's
  `state` and calls the backend object (`p.`), which changes native controls.
- The **user** acts on native controls. The window procedure finds the backend
  object, which writes the same `state` and calls the program's callback
  (`onActivate`, `onChange`, `onClose`); the callback may call anything again.
- The **tree** joins widgets to a window: `append` and `setLayout` register
  widgets, registration destroys and re-creates their native controls, and
  re-creation applies the state again (this is where radio buttons have to get
  their marks back, and everything its visibility).
- The **toolkits** differ in when they notify: GTK and Qt emit signals inside
  their setters, for the program's changes as for the user's; Windows and Cocoa
  mostly do not. They differ in where a selection goes when rows go, too.
- There is one thread. Interleaving comes from callbacks that run inside other
  calls: the nested event loops of modal windows, the callbacks of timers, and those of
  `priority_queue::tick`; and from what is already posted when the program changes its mind.
- `nall` knows nothing of phoenix; it is used by value.

## Modules

| Module | Models | State | Actions |
|---|---|---|---|
| `RadioGroup` | `RadioButton` in `core/core.cpp` and its Windows backend | each item's copy of its group, `checked`, the native mark, who was called back last | `New`, `Group`, `SetChecked`, `OnActivate` (a click), `Orphan` (re-creation), `Destroy` |
| `SizableTree` (with `Closures`, reachability in a finite graph) | one window's tree: `Window`, `Sizable`, `Layout`, the box and fixed layouts, `Widget`, `Frame`, `TabFrame`, and `pWidget`/`pWindow` on Windows | parents, children, contents, roots, window pointers, the flat list `registered`; HWNDs made, their parent HWND, shown; the visible flags | `WindowAppend`, `WindowRemove`, `Append`, `SetLayout`, `Remove`, `DestroyLayout`, `DestroyWidget`, `NewWidget`, `SetVisible` |
| `ModalLoop` | `setModal`, `setVisible`, close and quit of `windows/window.cpp` and `windows/application.cpp` | flags of each window, `pWindow::modal`, enabled HWNDs, the stack of loops with the callback each is in, `quit`, WM_QUIT | `SetVisible`, `Enter`, `LetGo`, `Leave`, `Quit`, `Dispatch`, `Close`, `Return`, `Swallow`, `End` |
| `Combo` | `ComboButton` over four toolkits | rows, selection, native selection, whether `onChange` ran | `AddText`, `RemoveText`, `ResetTexts`, `SetSelection`, `SetText`, `OnChange` (the user), `OrphanCombo` |
| `Chooser` | what a combo button promises: rows, and one choice that stays with its row | rows, choice | the same calls |
| `ListRows` | `ListView` over four toolkits | check marks and selection in the object and natively, Qt's roles and current item, `onChange`, `onToggle` | `AppendRow`, `RemoveRow`, `ResetRows`, `SetRow`, `SetSelected`, `SetChecked`, `Repaint` (setText, setImage), `OnSelect`, `OnDeselect`, `OnToggle` (the user), `OrphanList` |
| `TabStrip` | the tabs of `TabFrame` over four toolkits | layouts shown, selection, tab in front | `AppendTab`, `RemoveTab`, `SelectTab`, `SetTabLayout`, `Place`, `OnTab` (the user) |
| `Slider` | the sliders and scrollers over four toolkits | length, position, native maximum and value | `SetLength`, `SetPosition`, `OnMove` (the user), `OrphanSlider` |
| `Timers` | `Timer` over four toolkits, with the loop that serves it | timers, sources, posted messages, Windows' list, the callback that runs | `NewTimer`, `DestroyTimer`, `SetTimerEnabled`, `SetTimerInterval`, `Due`, `Serve` (`Dispatch`, `Trigger` or `Run`), `Return` |
| `Toolkit` | the names of the toolkits and the variable that says which it is | | |
| `Menus` | menus, check items and radio items, and the Windows code that makes the native menus | bar and menus, looks of each action, parent pointers, native bar and menus | `AppendMenu`, `RemoveMenu`, `AppendAction`, `RemoveAction`, `SetActionEnabled`, `SetActionVisible`, `CheckItem`, `CheckRadio`, `Destroy`, `Choose` (the user) |
| `Frames` | a window's geometry and looks on Windows | the state, the HWND (outer height, style, bars) | `SetGeometry`, `SynchronizeLayout`, `ShowFrame`, `SetMenuVisible`, `SetStatusVisible`, `SetResizable`, `SetFullScreen`, `Resize` (the user) |
| `Boxes` | `minimumSize` and `setGeometry` of both box layouts | children, places | `LayOut` |
| `BufferedFile` | `nall/file.hpp` | the file on disk, the page in the buffer, `dirty`, position and size | `Open`, `OpenFails`, `Read`, `Write`, `Seek` with `Pad`/`Padded` (its loop), `Truncate`, `Flush`, `Close` |
| `ByteFile` | what a file promises: a string of bytes and a position | content, size, offset, mode | the same operations without a buffer |
| `PriorityQueue` | `nall/priority-queue.hpp` | the heap array, the clock, the hole of the running loop, where `tick` is | `Enqueue`, `Dequeue`, `Reset`, `Tick`, `Up`, `Down`, `Fill` (turns of the loops), `Fire`, `Ticked` |
| `Agenda` | what a scheduler promises: a set of events with the ticks they have left | pending events, where tick is | the same operations on the set |
| `Vector` | `nall/vector.hpp` | pool, base, size and count of each vector | `Prepend`, `AppendTo`, `AppendOnce`, `AppendOwn` (an element of its own), `SetAt`, `Reserve`, `Resize`, `RemoveFrom`, `TakeFrom`, `ReverseAll`, `ResetVector`, `Copy`, `Move` |
| `DataLists` | what vectors promise: sequences | sequences, the answer | the same calls |
| `SetTree` | `nall/set.hpp`, a red-black tree | the tree, the count | `Insert`, `Erase`, `Find`, `Clear` |
| `HashSet` | `nall/hashset.hpp`, linear probing | cells, length, count | `InsertHash`, `FindHash`, `RemoveHash`, `ReserveHash`, `ResetHash` |
| `ValueSet` | what both sets promise: a set | elements, the answer | insert, remove, find, clear |
| `Patches` | `nall/ups.hpp` and `nall/beat/{linear,delta,patch}.hpp` | both files, the patch as far as it is made, the cursors of who makes it and who applies it, what is written, the outcome | making it: `UpsSame`, `UpsDiffer`, `UpsChange`, `UpsMade`; `Linear`, `Delta`, `BpsMade`; applying it: `Apply`, `UpsSkip`, `UpsXor`, `UpsApplied`; `BpsCommand`, `BpsByte`, `BpsApplied` |

`MC*` modules instantiate the others for TLC. `MCControls` and `MCValues` are
benches: several components that share no state are put in one run, each
behaviour being that of one of them, so that the states are the sum of theirs. `*_proofs`
modules hold the theorems. An operator whose comment begins with "Mutant of" is a
deliberately wrong version of the definition it names: with it in place of the
original, the run listed with it in `PROJECT.json` finds its property violated.
None is used in a specification.

How close the steps are to the code: one action is one call of the program, or
one native message with its handler, up to a callback, except where something
can happen in between. In `PriorityQueue` each turn of a loop is a step,
because the callbacks of `tick` re-enter the queue between them and because the
heap's order around the hole is what its correctness rests on. In `ModalLoop`
`setModal(true)` is two actions, `Enter` and `Leave`, with everything that runs
in its loop in between, and `pWindow::onClose` is `Close`, the program's
callback, then `Return`. In `Timers` the posting of a message, its dispatch and the
end of the callback are steps. In `BufferedFile` each turn of the loop that pads is
one step. In `Patches` so is each round of the loops that make a patch, and each command, byte
and run of equal bytes when one is applied: what is made and what is read have to fit together in
between. A step that would touch a destroyed object is undefined behaviour:
the guards `Reachable` (radio groups), `Sound` (tree), and those of `Dispatch` and `Menus`
stop there, and properties say that with the rules below it never comes to that. A step that throws, and
nobody catches, ends the program: `Slotted` (a Qt list row whose role is outside of the object's rows) stops there.

What a native control does by itself (where its selection goes when rows go,
whether it notifies) is the toolkit's and no code of the repository: `Combo`,
`ListRows`, `TabStrip`, `Slider` and `Frames` say what they take it to do, and
choose among the outcomes where the toolkit does not say.

### Client disciplines

Some properties hold for every program, others for programs that keep to a rule
the code depends on and does not state. The rule is a history variable: it
starts true and turns false at the first call that breaks the rule. The program is
free to break it, what happens then is modelled too, and a property that needs
the rule says so. (A tree that has a sizable in two places is the exception: the call is modelled,
what layouts do afterwards is not, `Sound`; the `append` without a size is not a call of the model.)

| Variable | Rule | Why it is needed |
|---|---|---|
| `whole` (`RadioGroup`) | items are regrouped together with all of their old group | items keep copies of the group; regrouping a part leaves the others with an old copy, and `~RadioButton` only reaches those in its own |
| `single` (`SizableTree`) | a sizable is appended, and a layout set, only when nothing holds it; no filled tab or frame is given another layout; `append` is called with a size or geometry | `append` looks in its own list at most, `setLayout` not even there: the first container still lists what has another parent by then. The `append` without a size is the base class's step: it gives a parent that does not list the child |
| `tidy` (`SizableTree`) | `single`, and a subtree is emptied before it is taken out or destroyed | removal reaches one level (or what `reset` walks) and leaves deeper parts registered |
| `careful` (`ModalLoop`) | a window is shown before it is made modal, and hidden while modal only in its own `onClose` | `setModal(true)` waits, and `pWindow::setModal(false)` is empty, so hiding ends no loop |
| `careful` (`Combo`) | no row before the selected one is removed (on Qt just before it; on Cocoa the selected one neither) | `remove` leaves `state.selection`, while the native selection moves with its row |
| `gentle` (`ListRows`) | on Windows and GTK no row at or before the selected one is removed, on Qt the last row only; lists are emptied with nothing selected; `setSelected` is not called on Qt, nor on Cocoa to select; on Qt no image is changed | `remove` and `reset` leave `selected`; Qt's slots go by the index a row was appended at, and run for repaints too; `setSelected` does not follow on Qt and Cocoa |
| `orderly` (`TabStrip`) | no tab before the selected one is removed (on Windows not that one either; on Qt any); once the frame is placed, layouts are set for the tab in front only; only a tab that there is is selected | `remove` leaves the selection; `setLayout` shows what it is given; `setSelection` checks nothing and stores any number |
| `lawful` (`Slider`) | positions are set within the length | the native side clamps them, the object does not |
| `prudent` (`Timers`) | on GTK a timer is enabled, and destroyed, only once it has no source; on Windows it lives as long as the program | GTK never stops a source; Windows never takes a timer out of its list |
| `emptied` (`Menus`) | no menu is destroyed with actions in it | the actions keep a pointer to it, which their own destructor follows |
| `steady` (`Frames`) | in full screen nothing is called but the end of it, and full screen is for windows that are shown, `setResizable` for those that are not | both replace the whole style, WS_VISIBLE with it; other calls go by the geometry outside of full screen |
| `sane` (`Vector`) | `remove` does not wrap around, `take` is called for an object that there is, no vector is moved into itself, no element is appended to its own vector when that grows | see the finding; `take` reads its cell before `remove` checks; the element has been freed when it is read |
| `tidied` (`HashSet`) | no value is inserted twice, none is removed with another in the cell behind it | `insert` does not look; `remove` leaves a hole in the chain |
| `Limit < Half`, and `Limit + MaxTick < Half` with re-entrant callbacks (`PriorityQueue`, constants) | delays and ticks together stay below half the range of an unsigned | counters are compared modulo 2^32 |
| guard of `Truncate` (`BufferedFile`) | a file is truncated with nothing unwritten, and then only closed | as `bpspatch::target` does; `truncate` leaves position, size and buffer as they were |

Three conditions are not rules about calls, and are in the properties or assumptions themselves:

- `Fits` (`Boxes`): the container is no smaller than `minimumSize`. A child that gets nothing (it needs
  nothing, as `pWidget::minimumSize` says by default, or the rest is less than a pixel for each of the
  largest) is made one pixel wide all the same, and overlaps the next child or the margin by that
  pixel; `LaidOut` says that this is all.
- `Expressible` (`Slider`): `MAKELONG(0, length - 1)` keeps 16 bits, so the knob of a Windows slider of
  more than 65 536 positions (`Short`) stops before the end while the object goes on; scrollers
  pass 32 bits.
- `PatchAssumption` (`Patches`): files are shorter than a quarter of the range of the 32-bit numbers
  (`PatchWord`), 2^30 bytes. Commands hold a length shifted by two bits, offsets are shifted by one, and all
  of that is done in 32 bits by those who make a patch and the one who applies it.

## Runs

| Run | Instance | States | Shows |
|---|---|---|---|
| `radio` | 4 items, any regrouping | 78 062 | `MutualExclusion` and `CallbackSeesChoice` for any program; `NoDangling`, `NativeMatches`, `SelectionKept` while `whole` |
| `tree` | a box, a fixed layout, a widget, a frame | 311 744 | `WindowInherited`, `Registered` while `tidy`: membership follows the tree |
| `tree_tabs` | two boxes, a widget, a TabFrame | 161 106 | `ParentsAgree` while `single`, tidy or not, freed and reused addresses included; `Hosted`, `ShownAsVisible` while `tidy`: re-created HWNDs are in the right parent, and shown as they should be |
| `queue` | 6 events, 4-bit counters, delays and ticks up to 2, re-entrant callbacks | 373 920 | `HeapOrdered`, and `OnTime`: the refinement of `Agenda` |
| `modal` | 2 windows, loops 3 deep, any program, with and without `Application::main` | 41 640 | `Listed` for any program; `Reachable` and the liveness of `HiddenEnds` while `careful`, and of `QuitEnds` with `Application::main` |
| `controls` | one of: a combo button, a list, a tab frame, a slider or scroller, two timers (each on any of four toolkits), menus, a frame, a box layout | 227 203 | `SameRow`, `Chooses` (the refinement of `Chooser`); `MarksAgree`, `LitIsChosen`, `TogglesTold`; `FrontShown`; `KnobAgrees`; `OneSource`, `NoLateTick`, `KeepsTicking`; `MenuShown`, `NothingDead`; `FrameAgrees`, `AsAsked`; `LaidOut` |
| `values` | one of: two vectors, a set of eight values, a hash set of three, patches between any two short data, a file of up to four bytes in pages of two | 179 554 | `InPool`, `Sequenced` (vectors are sequences); `RedBlack`, `TreeImplements`; `HashImplements`; `RoundTrip`; `Coherent`, `Unbuffered` (the refinement of `ByteFile`) |
| `file_seek`, `queue_limit`, `modal_shown`, `menu_radio`, `vector_underflow` | | | the five findings below, as violations |

Why the bounds are enough for what each run asks:

- *Radio.* A disagreement of copies needs two overlapping groups and an item
  outside of each: three items; the fourth lets both groups keep two members.
- *Tree.* Two layouts nest (a box in a box, a box in a frame, a box in a tab);
  with the roots this gives trees of depth four, deep enough for a part that a
  removal of the top does not reach. Two TabFrames inside each other are out of
  the run's reach; the theorems about the tree do not depend on how many there are.
- *Queue.* Six entries give a heap of three levels with a node that has one child
  only; with 4-bit counters the clock wraps several times, and no bound is put on
  how long the queue runs.
- *Modal.* Loops three deep with two windows have the same window modal twice,
  inside and outside the other's loop. One window is shown from the start.
- *Controls.* Four rows (`MaxRows`) of two texts have a row before, at and after the
  selected one, and equal texts; three list rows and three tabs the same, where texts do not
  matter. Lengths 0 to 5 have 0 and 1, where `length - 1` is special, the one that controls are made with
  (`FirstLength`), and one more than 16 bits express on Windows (`Short` is 4 in place of 2^16). Two timers with three
  sources (`MaxSources`) are one more source than the rules allow, and seven calls
  (`MaxCalls`) construct both, enable both, and leave three for disabling, enabling again
  and changing the interval while messages are posted; what the toolkits do is not
  bounded. Two menus, a check item and a radio item nest a menu in a menu; only one menu is ever
  hidden or disabled (`Hideable`, `Dimmable`). Two heights, two border widths and bars of
  different sizes keep every addition of one apart from that of another. Layouts have up to
  three children of a fixed, least or largest size that need nothing or something (`Kids`), in containers
  too small, just enough and with room to spare (`Rooms`); unsigned sizes are modulo 32 in place of 2^32.
- *Values.* Three objects in pools of up to four cells grow a vector at either end with room
  and without; unsigned counts are modulo 16. The second vector's pool has two cells at most
  (`SmallPool`): it takes part in copies and moves. Eight values make red-black trees four levels deep
  in which all cases of a removal occur. Three keys with any hashes in pools of one to
  eight cells collide, wrap around and make the pool grow. Patches are between data of up to three and
  up to six bytes of two values, with digits to the base 4 in place of 128, so that the
  numbers have several digits, copies overlap, and offsets are negative; their 32-bit arithmetic is
  modulo 32 in place of 2^32, the least power that `PatchAssumption` admits. Four bytes
  in pages of two make files that end inside a page, at its end, and one past it; `Seek` goes
  from -1 to the bound.

Bounds in guards are `MaxSize` (a file no client extends further), `MaxDepth` (how
often clients nest loops), `MaxRows`, `MaxLines`, `MaxTabs`, `MaxKids`, `MaxObjects` (how much
clients put in), `MaxSources` and `MaxCalls`; `Capacity`, `Limit` and `MaxTick` are what
clients keep to. Deadlock is checked in `radio`, `tree`, `tree_tabs` and `queue`; the
others may stop: the program of `modal` ends, the calls of `Timers` are bounded, a layout is
laid out once, a patch is made and applied once, and `menu_radio` and `vector_underflow` are instances of those modules.

### Fairness

`ModalLoop` and `Timers` have liveness properties. Of `ModalLoop` is assumed

- weak fairness for `Return`: callbacks return. It says so of the program's own code, and
  a callback that is itself in `setModal` is not in the way: then it is the loop
  above it that is running, and `Return` is not enabled.
- strong fairness for `Leave` and `End`: the loops look at their condition whenever
  `processEvents` returns, and that returns again and again because messages do
  not come faster than they are taken. Strong, because timers and messages may
  call back between any two looks.

Of `Timers`: weak fairness for `Return` as above; for each source, weak fairness for `Due`
(time passes, and Windows posts again once the message has been taken) and strong fairness
for `Serve`, since the toolkits' loops serve what is due in order and other callbacks may
come first.

Nothing is assumed of the user or of what the program does in its callbacks:
`HiddenEnds`, `QuitEnds` and `KeepsTicking` have these as premises, stated as
`<>[]` of the state.

## Proofs

All theorems hold for every value of the constants that the named assumptions (`...Assumption`
in each module) admit: any set of items, any layouts and widgets, any page size,
any width of counters and words, any number of windows, rows, tabs and timers, any depth of loops.
Where a rule of the table above is needed it is in the property as its history
variable, so the theorems are about all programs; those about the queue assume `Limit < Half`.
Three assumptions are about more than types: `SourcesAssumption` (`Timers`) says that the
toolkit has a source for every timer, `SizesAssumption` (`Boxes`) that no sum of sizes
overflows, and `PatchAssumption` (`Patches`) that no length or offset is lost when it is shifted in 32 bits.
`OneSourceHolds`, `LaidOutHolds` and `RoundTripHolds` rest on them.

The proofs are in eight modules, one for each component or bench: `RadioGroup_proofs`,
`SizableTree_proofs`, `BufferedFile_proofs`,
`Controls_proofs` (combo buttons, lists, tabs, sliders, timers), `Window_proofs` (frames, menus,
box layouts, modal loops), `Containers_proofs` (vectors, hash sets, the priority queue), `SetTree_proofs`,
`Patches_proofs`.
Where the model counts or sums (probes of a hash set, entries of a menu, sizes of children),
the definitions are recursive functions of a number, and their lemmas go by a least
counterexample, which `WellFoundedInduction` provides: no induction theorem is needed.
`SetTree` recurs over trees. Its operators are recursive functions on `Trees`, all trees that can
hold each of `Values` in one node; that such functions exist, and are what their definitions say,
is proved by the depth of the tree, and what holds of all red-black trees is proved along the
relation `Tree`, a least fixed point (`TreeBy`). That is why `SetAssumption` asks for finitely many
integers: no bound on how many. `Xor`, `Encode` and `Decode` of `Patches` recur over numbers and
positions; that there are such functions is proved once, for any recursion along a measure
(`Recursion`), and what they compute by the least number or the last position that is wrong.

| Theorem | Result | Argument |
|---|---|---|
| `TypeCorrect`, `ExclusionHolds` | `TypeOK`, `MutualExclusion` | `ExclusionInv` adds `SelfMember`: who is in a group is in his own, so that `setChecked` reaches his own native button. Exclusion is also kept for the marks, because `NativeSetChecked` decides the whole group at once |
| `CallbackSeesChoiceHolds` | `CallbackSeesChoice` | from `ExclusionInv`: a click checks its item and unchecks the others of its own copy |
| `WholeGroupsSafe`, `NoDanglingHolds`, `SelectionKeptHolds` | `NoDangling`, `NativeMatches`, `SelectionKept` | `WholeInv` adds `Shared`: while `whole`, members of a live item's group are alive and agree on it |
| `ParentsAgreeHolds`, `TreeTypeCorrect` | `ParentsAgree`, `TypeOK` | `TreeInv`, kept while `single`, adds that contents agree with parents (`ContentAgree`) and that roots have no parent (`RootsTop`); what `synchronizeLayout` visits is a closure, and closures are handled with the four lemmas about `Closure` (it contains its seed, is closed, is least). Types are kept by any program (`CoreStep`) |
| `WindowFollowsTree`, `RegisteredHolds` | `WindowInherited`, `Registered` | `TidyInv`: both together with `TreeInv`. `WindowInherited` needs `Registered`, since the walk of an append passes a holder only if it is not registered yet |
| `HostedHolds`, `ShownAsVisibleHolds` | `Hosted`, `ShownAsVisible` | `ShownInv` adds to `TidyInv` that what is dead is nowhere in the tree, and says of every registered widget which HWND it is in and whether it is shown, by the walk up its parents. Registering a widget makes its HWND again, so the proof is about chains of parents before and after: what is above a widget that a call does not touch stays above it |
| `FileCoherent` | `Coherent` | `FileInv` adds what holds while a seek pads and while the file is closed. Central lemma `FlushAll`: after `buffer_flush` all of the file is on disk |
| `UnbufferedHolds` | `Unbuffered`: `BufferedFile` implements `ByteFile` | what clients see, `View`, is left alone by `buffer_sync` and `buffer_flush` (`SyncView`, `FlushView`); each step maps to one of `ByteFile` or to a stutter. A padding seek takes effect at once in the abstract file |
| `HeapCorrect` | `HeapOrdered` | `QueueInv` adds `Near`: any two entries are less than `Half` apart by the clock, so that `gte` compares what it looks like it compares (`GteKey`, `GteClock`). Re-entrant callbacks are why the lateness `MaxTick` counts |
| `OnTimeHolds` | `OnTime`: `PriorityQueue` implements `Agenda` | turns of the loops move entries and change no set of them, so they are stutters; the root is a least entry (`RootFirst`) |
| `ListedHolds` | `Listed`, `EnabledAdmitted` | inductive with the types |
| `ReachableHolds` | `Reachable` | `HiddenClosing`: while `careful`, a modal window that is hidden is one whose `onClose` is running, and no loop for it has begun since; so `Return` lets go of it before the program waits again |
| `FrameFollowsState`, `ClientKept` | `FrameAgrees`, `AsAsked` | `FrameInv`: both together, as the outer size that `setGeometry` asks for goes by the bars and the style of the state, and the size heard back by those of the window |
| `MenuShownHolds`, `NothingDeadHolds`, `MenuTypeCorrect` | `MenuShown`, `NothingDead`, `MenuTypeOK` | `MenuInv` adds that an action is in one place at most (`OnePlace`) and that one with a menu above it in the bar knows its window, visible or not (`Known`): so a call that updates no window concerns nothing that is on screen. `Kept`, what is visible of a list, is a recursive function of how much of it has been looked at |
| `LaidOutHolds` | `LaidOut` | places are those of the last container (`BoxInv`); what remains is arithmetic. The sizes known are no more than `minimumSize`, so nothing wraps around (`AlongFits`, `AcrossFits`), and a child wider than what it got is one that got nothing (`BareAlong`, `BareAcross`); sums over children grow and are linear (`TotalGrows`, `TotalLinear`) |
| `ObjectsInPool` | `InPool` | `VectorInv`: each vector is a well-formed record whose objects lie in its pool (`Held`). One lemma per helper of the code: `Reserved` gives room, what is cut, moved and shifted stays in |
| `SequencedHolds` | `Sequenced`: a vector is a sequence of `DataLists` | from `VectorInv`, call by call. Lemmas say which cell holds what after each helper (`ReservedObjects`, `ShiftedObjects`, `LengthenedHeld`, `WithoutIs`); `ReadOff` compares the objects with the sequence element by element |
| `HashSetImplements` | `HashImplements`: a hash set is a `ValueSet` | `HashInv`: every value is in a cell of its probe sequence with no empty cell before it (`Chained`), once (`Apart`), and the count is the number of values, at most half of the cells. So `find` meets a value before an empty cell (`SearchFinds`) and there is one for the next (`VacantIs`); `RehashedIs` goes cell by cell over the old pool |
| `TreeImplementsHolds` | `TreeImplements`: the red-black tree is a `ValueSet` | `TreeInv`: the root is in the relation `Tree(root, S, h)` with some set of values and some black height, is black, and `nodes` counts `S`. `InsertedIs` and `RemovedIs` go down the tree: the first leaves a tree whose top may be red above red, which `RepairedIs` takes up a level, the second one of its old height or the next lower (`Leaves`), which `LevelIs` and `BalancedIs` take up. `HeirWhat`: the value that replaces a removed one is the largest on the left |
| `RedBlackHolds` | `RedBlack` | from `TreeInv`; `TreeHas` gives the height and the count. Iteration: every value has the path to it from the root, `Down` is the path to the least, and `operator++` takes the path of a value to that of the next, going down when there is a right and else up to the last turn (`PathsAbove`, by cases of where the two are around a node). So the i-th step is at the i-th value (`StackAt`) |
| `RoundTripHolds` | `RoundTrip` | what is written and read in 32 bits is the number itself, as the files are short enough (`NarrowIs`, `CodeFit`, `SignFit`). `PatchInv`: there is a path of marks (`UpsPath`, `BpsPath`), places in the patch with how much of the output is written when the reader comes there, and each step along it writes what the two files have in these places. While the patch is made the path grows at its end, short of what is not yet flushed (`UpsMakes`, `BpsMakes`); the reader goes from mark to mark (`UpsAt`), what it has written is right (`Right`) and so are the bytes that a command is about to write (`Carries`), overlapping copies included. `PatchInv` quantifies over paths, which TLC cannot enumerate: the run checks `RoundTrip` itself |
| `SameRowHolds`, `ComboChooses` | `SameRow`, `Chooses`: `Combo` implements `Chooser` | `ComboInv` adds where the native selection can be, and that an empty combo button says 0 on toolkits whose first row does not notify. Lemmas of what `RemoveAt`, `ReplaceAt` and `Append` do to a sequence |
| `MarksAgreeHolds`, `LitIsChosenHolds`, `TogglesToldHolds` | `MarksAgree`, `LitIsChosen`, `TogglesTold` | `ListInv` is `RowInv` (marks agree, and on Qt the rows of a gentle program carry their own numbers, so the slots write where they should; other toolkits have no roles and their marks go by position, whatever rows are removed) and `LightInv` (on Qt the current item is where the highlight goes back to) |
| `FrontShownHolds` | `FrontShown` | `TabInv` adds that a frame with tabs has one in front, and the case without tabs |
| `KnobFollows` | `KnobAgrees` | `SliderInv` adds that the native maximum is the one computed from the length, cut to 16 bits for Windows' sliders: `End` of it where `Expressible` |
| `NoLateTickHolds` | `NoLateTick` | `TimerInv`: while `prudent`, on toolkits that do not look again before a callback, a source is a living, enabled timer's (`Guarded`); GTK looks. On Windows the message may be late, but the walk goes by the sources there are |
| `OneSourceHolds` | `OneSource` | `SourceInv`: while `prudent`, a timer has one source at most, of its own interval, and an enabled one has one. An enabled timer gets a source because the others have one each and there are as many sources as timers (`SourcesAssumption`): a pigeonhole argument over cardinalities |

Model-checked only:

- `HiddenEnds`, `QuitEnds`, `KeepsTicking`: liveness under fairness is out of the prover's reach.
  Every invariant and every other property of the passing runs is a theorem.

## Findings

1. **`seek` before the start** (`nall/file.hpp:197`, run `file_seek`). The code
   means to stop at the start and compares an unsigned with zero: such a seek
   ends at the end of a file being read, and pads one being written for ever.
2. **The longest delay of `enqueue`** (`nall/priority-queue.hpp:104`, run
   `queue_limit`). The comment allows `max() >> 1`; `gte` is strict there, and
   such an event overtakes one that is due, which `tick` then leaves unfired.
3. **The order of calls in `test-modal.cpp`** (run `modal_shown`). It calls
   `setModal` before `setVisible` and expects it to return. The code waits in
   `setModal` for a window nobody can see or close.
4. **Radio items of menus** (`phoenix/windows/utility.cpp:284`, run `menu_radio`). WM_COMMAND
   dispatches chosen entries by a list of types that `RadioItem` is not in:
   the user's choice checks nothing and calls nobody.
5. **Removing from an empty vector** (`nall/vector.hpp:122`, run `vector_underflow`). The sum in
   the bounds check wraps around: nothing is thrown and the vector has 2^32 - 1 objects.

What the disciplines above exclude (subtrees that stay registered, old groups
with dangling members, broken probe chains, timers with two sources) is listed in
`PROJECT.json` among the hazards, with the lines.

## Plan

Built, in this order: `RadioGroup`, `SizableTree`, `BufferedFile` over
`ByteFile`, `PriorityQueue` over `Agenda`, `ModalLoop`; then `Combo` over `Chooser`,
`ListRows`, `TabStrip`, `Slider`, `Timers`, `Menus`, `Frames`, `Boxes` on one bench, and `Vector` over
`DataLists`, `SetTree` and `HashSet` over `ValueSet`, `Patches` on the other; with the proofs listed.

What would come next:

1. Holders in `SizableTree`: what follows when a content is replaced or a sizable has two holders, and destroying a holder whose content
   stays (`~Frame`, `~TabFrame`); windows destroyed while modal in `ModalLoop`.
2. `Form`, a tree whose plain widgets are radio buttons: `RadioGroup!Orphan` is what
   `SizableTree` does to a radio button it registers.
3. Copies and moves of whole sets; a string with the small-string allocator against values.

## Not modelled, and why

- **`~Frame`, `~TabFrame`, a window destroyed while modal**: they leave pointers to the
  destroyed object; a model that follows them would only say that it is undefined.
- **What untidy removals leave behind**: after them only `ParentsAgree` is claimed; after a second holder nothing is.
- **Fonts, images, enabling of widgets**: data that is passed on; enabling recurses exactly as
  visibility does. `FixedLayout` keeps the geometry it is given.
- **The tree, radio groups, menus, frames and modal windows on GTK, Qt and Cocoa**: the
  Windows backend stands for the native side there.
- **Progress bars, hex editors, widgets with one mirrored value, dialogs, polling of
  devices**: an assignment and a native call each, or key handling. These, with the declarations
  that go with them, are a large part of `src/phoenix`.
- **Strings, parsers, decoders, compression, hashes, images, signal processing,
  operating-system wrappers** in `nall`, the largest part of it: sequential functions over
  data or pure I/O, for which tests are the better tool.
- **Copies and moves of sets, `serialize` of the queue, `sort`**; `vector::insert` does
  not compile.
- **`hello` and the test programs**: read for what clients do.
