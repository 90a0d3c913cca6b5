# LKMFileSystemProtection in TLA+

The repository is a Linux 2.6.32 kernel module (`src/MainProject/LKM`) that
protects files: it replaces eleven entries of the system call table by hooks,
and the hooks refuse or filter calls according to a list of rules. A program of
the operator (`src/MainProject/User/complexuser.c`) writes the rules to
`/proc/gsfileprotection/protect`. The code has no tests and an empty README; the
source is the reference for everything below.

In this text `communicate.c`, `fsprotection.c`, `syscallinterception.c`,
`notification.c` and `utilities.c` are files of `src/MainProject/LKM`, and
`complexuser.c` is the one in `src/MainProject/User`.

## 1. Inventory

| Part | State | Operations | Talks to |
|---|---|---|---|
| Protection list (`communicate.c`) | `fileList_root`, the nodes, `protect_enabeled`, `raw_data_buff`, `data_buf` | `proc_protect_write`, `proc_ctrl_write` (refresh, clear, disable, enable), `create_list`, `destroy_list`, `is_fd_protected`, `is_ino_protected`, `is_path_protected` | written by the manager through /proc, walked by every hook, reports refusals to the notifier |
| Hooks (`fsprotection.c`) | `origin_X` | `modified_mkdir`, `chdir`, `rmdir`, `getdents64`, `read`, `write`, `open`, `unlinkat`, `unlink`, `rename`, `renameat` | called through the system call table; call the checks and the real calls |
| Listing filter (`modified_getdents64`) | its copy of the buffer, `head`, `prev`, the lengths | one call | `is_ino_protected` for every record |
| Path names (`utilities.c`) | the allocated strings | `getNewFullPath`, `copyStringFromUser`, `getParentDirFromFullPath` | called by the hooks that get a name |
| Life of the module (`syscallinterception.c`, `getsyscalltable.c`, and the init and exit functions of `communicate.c` and `notification.c`) | the table, the saved entries, the buffers, the /proc entries, the socket | `lkm_init`, `lkm_exit` | every task in the system |
| Notifier (`notification.c`) | `nl_sk` | `sendnlmsg` | netlink receivers |
| Manager (`complexuser.c`) | `fileList_root`, `tail`, the nodes | `addFile`, `removeFile`, `refreshFileList`, start, quit | writes the whole list after every change |
| Older manager (`client.c`, `complexuser2.c`) | a list that only grows | add | the same /proc file |
| Receivers (`user.c`, `LKM/complexuser.c`, `notificationReceiver`) | one payload buffer | receive and print | the notifier |

Not part of the running system: `User/Notification` (the netlink sample
`notification.c` was made from), `readlinetest`, `printstring.c` (console
output), the Makefiles, `tags` and compiled programs.

What is hard. Nothing in the kernel module takes a lock. Every hooked system
call on every processor walks the list while write handlers free and rebuild
it; two write handlers can be at it at once, and share one scratch buffer; the
module can be unloaded while tasks are inside its text, and loading can fail
after the hooks are in. The parsers have ends that are easily missed (a line
without `@`, a record length of zero, a 16-bit sum, an unsigned error code).
`PROJECT.json` lists each of these under "hazards" with the line where it bites
and the properties that watch it.

What makes each part correct. *List*: at rest it is exactly what the last
accepted text says; a check answers as if it had read the list at one moment;
no node is lost; a task dies only for a reason one can name; a rule is about the
file its line named. *Filter*: the
caller meets all visible records and no hidden one. *Hooks and names*: a call that
a rule forbids does not touch what the rule names, a call that is refused was
forbidden, every buffer is freed. *Notifier*: what a receiver prints was sent, in
order, and no loss is silent; a hook never waits for it. *Life*: the table never
leads to text that is gone, nothing stays behind, rmmod ends. *Managers*: the
operator's list changes as asked, and the kernel enforces it.

## 2. Modules

| Module | What it is |
|---|---|
| `ProtectText` | the rule text as a sequence of lines, and what a whole text comes to (`Accepted`, `Unparsable`); the format both sides share |
| `ProtectList` | the list, its write handlers and its walks, one memory access per step |
| `AccessPolicy` | what the list promises the hooks, without memory: rules that are withdrawn as a whole and grow at their end, checks answered in one step |
| `Getdents` | `modified_getdents64` and a program that lists a directory with it |
| `Interception` | loading and unloading, entry by entry, with tasks inside |
| `PathNames` | how `utilities.c` puts names together and cuts them, and what a name denotes |
| `Hooks` | the eight hooks that are given a name, with their buffers and the real calls on a small tree |
| `InodeLife` | the inodes whose addresses the list keeps: made, removed, dropped from memory, read in again |
| `ManagerText` | the text a manager writes for its list and what its operator means by it |
| `Manager` | any number of managers, each with its linked list, and the rules in the kernel |
| `RuleBook` | what a manager shows its operator: numbered lists that do what they are told |
| `ManagedList` | managers on top of `ProtectList`: every write walks the list in the hook and rebuilds it in a handler |
| `OlderManager` | `client.c`, character by character from the terminal to the kernel |
| `Notification` | `sendnlmsg`, the sockets and the receivers |
| `NoticeBoard` | what a receiver shows its user |
| `ProtectListProofs`, `HooksProofs`, `ManagerProofs`, `ManagedListProofs`, `OlderManagerProofs` | the theorems about the module of that name |
| `GetdentsProofs` | the theorems about `Getdents`, and about `InodeLife` |
| `NotificationProofs` | the theorems about `Notification`, and about `Interception`, the life of its socket |
| `ProtectTextProofs` | lemmas about the rule text and about what a manager writes, which the others share |
| `MC...` | values for the constants of the module of that name |

`ProtectList` implements `AccessPolicy` (`ImplementsPolicy`), `Manager`
implements `RuleBook` (`ImplementsBook`) and `Notification` implements
`NoticeBoard` (`ImplementsBoard`). `ProtectList` and `ManagerText` extend
`ProtectText`: the writers of the text and its parser meet there. `Manager`,
`ManagedList` and `OlderManager` write what `ManagerText` says. `ManagedList`
composes the managers with an instance of `ProtectList`.
`Hooks` takes a check as one step, as `AccessPolicy` permits.
`Interception` sees the list as one bit (it holds a rule or not) and "freed
under a walk" as a flag per task; `ProtectList` has the details.

"Slip" operators state mistakes that could be made in the definition below
them: a count that starts one off, a test that is dropped. No specification uses
them. `PROJECT.json` pairs each property with one of them, and the property
must fail once the slip takes the definition's place.

Each module has one type invariant, `TypeOK` (`ModuleTypeOK` in `Interception`,
`InodeTypeOK` in `InodeLife`, whose names must differ from those of the module they
share a proof module with). In `ProtectList`, `Interception` and `InodeLife` it is a
property of a run and a theorem; in `Getdents`, `Hooks`, `Notification`, `Manager`,
`ManagedList` and `OlderManager` it is a conjunct of an invariant that is checked and
proved.

### ProtectList

`wpc[w]` is the place of a write handler, `rpc[r]` of a check. `BeginDestroy`,
`DestroyNode`, `FreeNode` and `EndDestroy` are `destroy_list` line by line;
`FindTail`, `SeekTail`, `CopyText`, `LastLine`, `SkipLine`, `NewNode` and
`LinkNode` are `create_list`; `Dispatch` is the command comparison in
`proc_ctrl_write`. `Call`, `Start`, `Visit`, `Advance` and `Notify` are the
three walks, which differ in `Match`, in the switch (`Switched`: only
descriptors) and in what they dereference (`Readable`). "oops" is a task the
kernel killed: `WriterFault`, `NoLetterFault`, `ReaderFault`,
`CallBadDescriptor`, and a text past the page or the buffer. "starved" is one it
killed because a `vmalloc` gave NULL, which the code uses unseen: `AllocFault` for
the copy of a text (`communicate.c:224`) and for a node (line 249), `NotifyStarves`
for the notice of a refusal (line 71). Memory may fail at any of these, any time.

History variables, read by no guard: `chain` (the nodes in list order), `goal`
and `asked` (whose text is being installed), `lost`, `clashed` (two handlers
were in the list, or in the scratch buffer, at once) and `overlapped` (a check
ran during a `destroy_list`). The properties promise nothing after a clash; that
is where the code promises nothing. They promise everything without one.

Abstractions. `NewNode` allocates and fills a node in one step: nobody else can
see it before it is linked. `LinkNode` sets the new node's next and the old
tail's next in one step for the same reason. A name is a value, so neither
truncation at 256 bytes nor characters are seen. A control text is one word,
where the code compares prefixes. `Lookup` is constant: files do not come and go
during a run, and an inode stays the file's; `InodeLife` is about what happens
when it does not.
The freed address holds `Blank` and a dereference of it is a fault, as vfree
unmaps it. Reuse of an address by a new node is included.

### Getdents

A buffer is a sequence of cells, a record takes as many as its `d_reclen`.
`OriginGetdents`, `OriginFails` and `OriginEnds` are the real call;
`AllocFails`, `CopyInFails` and `CopyIn` the way in; `Keep`, `CutHead` and
`Merge` the three branches of the loop; `CopyOut(m)` the way out, where
copy_to_user may stop after m cells. `ChangeRules` may happen between any two
records. `Short` stands for 2^16 and `Word` for 2^32, the widths of `d_reclen`
and of `buf_length`. `mishaps` remembers which of the code's own ways out were
taken: a call that returned unfiltered records, a length that wrapped, a buffer
in which everything was hidden so that the listing ended early. The caller walks
its buffer by `d_reclen` and never past its end.

### Interception

Code addresses are numbers: 0 is the kernel's, g the text of the g-th load. A
stale table entry is an entry whose number is not `text`. `Hook` and `Unhook`
store one entry per step, in the order of the code. Each failure of
`lkm_init` is `FailLoad`, which undoes nothing. A task enters whatever the table
holds (`Enter`), looks at the list, and is refused (`NotifyRefusal`) or forwarded
(`Forward`); the real call may sleep for ever. `TailCalls` are the hooks in which
a compiler may turn the last call into a jump, so that the task does not come
back into the module; both outcomes are modelled. A write handler is `EnterWrite`,
then `CopyRules` or, for an empty text, `ClearRules`, then `BuildRules`; `PassBy` is
one that leaves the list alone. Between the two it is at work in the list (`AtWork`),
and whoever gets into the list then, `cleanup_communicate` included, tangles it
(`tangled`, and per task `met`): until a handler that met nobody has rebuilt it, every
task in it may die (`WalkFaults`, `ListFaults`, `DestroyFaults`: rmmod itself).

A task dies in one of three ways. "oops": it executes unmapped text, walks a freed or
tangled list, uses a freed or missing buffer or a released socket. "starved": a
`vmalloc` or `kmalloc` gave NULL (`Starves`, `BuildDies`); `Hungry` are the hooks that
allocate for a name. "misused": a descriptor that is not open, a name too long, a
buffer changed by another thread (`BadArgument`; `Trusting` are the hooks that take
them unseen), a text without `@`, past its page (`BuildDies`) or past `raw_data_buff`
(`WriteOverruns`). What is written past the end of a buffer is not followed. A dead
handler sits inside `proc_file_write` (`stuck`).

External behaviour assumed: `remove_proc_entry` lets nobody new in and waits
for the handlers inside, as Linux 2.6 does; a load gets addresses no earlier load
had; the tasks of the model make one call at a time.

### PathNames and Hooks

A text is a sequence of components and slashes; `where` maps the objects of a
small tree to their places. A call goes through `copy` (`copyStringFromUser`) and
`full` (`getNewFullPath`), which rename does for each of its names, `check`, of the
first name, `origin` (the real call) and `free`; `open`, `renameat` and
`rmdir` go straight to the real call, as their hooks make no check before it.
`CopyFails` and `FullFails` are failing allocations, whose NULL nobody
looks at: `FullFaults` and `CheckFaults` are what becomes of it. `FullPath` appends
to what the buffer held (`Leftovers`), puts the current directory in front of
absolute names too, and `ParentDir` cuts at the last slash, or the last but one.
`Rewrite` is another thread that changes the name in memory, `Torn` the half-old
name a copy may catch. The kernel's calls (`Removes`, `MakesDir`, `Renames`,
`ChangesDir`) are external: path lookup with `.` and `..`, no links.
`seen`, `from` and `disturbed` are history: what was under a rule when the call
was judged, from which directory, and what came between.

### InodeLife

`home` is where the inode of a file is in memory, `i_ino` the number to be read at
an address, after the inode left it too. `AddRule` is one line of `create_list`:
open, take the address, close. `Evict` drops an inode nobody has open; `Make`
over an existing name is what an editor does when it saves. `IsFdProtected`
compares addresses, `IsInoProtected` the numbers at them. With each rule `lost`
remembers, as history, that an inode left the rule's address.

### Manager

`next` and `file` are the nodes of each process, `allocated` the ones malloc has
given out. `AddFile`, `RemoveHead`, `RemoveLater` and `RemoveNothing` are
`addFile` and `removeFile` up to the call of `refreshFileList`, which is
`Refresh`, `RefreshRefused` (the hooked `write` refuses, nobody notices) or
`RefreshDies` (the text does not fit the kernel's page). `order` is history: what the
operator asked for, an addition or a removal with its number, until it is written;
`RuleBook` says what the order makes of the list (`Obeyed`). Between the two another
manager may run. A rule on the /proc file itself works until its inode is
replaced, which can happen when the last manager has closed the file (`renewed`).
The kernel's side is the function `Accepted` that `ListMatchesText` shows
`ProtectList` to compute. `inStep` is history: the manager whose list the kernel
took last, unless that list changed since. Managers do not clash inside the
kernel here; that is the subject of `ManagedList`.

### ManagedList

A manager's list is the sequence that `RuleBook` promises. Its write is
`EnterHook`, `HookStep` and `LeaveHook` (`modified_write` and `is_fd_protected`,
node by node), then `EnterHandler` and `HandlerStep` (`proc_protect_write`, access by
access), all of them steps of the `ProtectList` instance in which every manager is a
writer and a reader. `AfterCheck` is the refused manager that goes on as if nothing
had happened. `protectFile` is the inode the /proc file has: `Start` may give
it another one when no manager had the file open, unless one died between `fget` and
`fput` and keeps it (`pinned`). A rule keeps the inode its line was opened with
(`Present`: the name of the file leads to the inode it has when the line is read).
`Control` is another program at the control file. `goal`, `clashed`
and `overlapped` are the history of `ProtectList`.

### OlderManager

The operator types a line when the program waits for one (`Answer`); `Command`,
`CommandAgain` and `Skip` are `scanf("%d")`, whose result nobody looks at,
`refreshstdin` throws away one character, `ReadPath` is `scanf("%[^\n]")` and
`ReadType` `scanf("%c")`. `Fork`, `ChildStarts` and `OpenFiles` are the start of
`main`, `refreshFileList` the write. `command` starts with any value, as it is not
initialised. `stray` is history: the operator once typed what was not asked for.
The menu's third and fourth entries do nothing; the list only grows, so it is a
sequence. Any character can become the type of a node: `FileOf` is the node as its
line is written, where an end of line makes a blank line behind it and any other
character that is no letter is a kind the kernel does not know; the text ends at the
first type that is 0 (`Text`). `complexuser2.c` is the same program a second time.

### Notification

`MessageWithStr` is a hook that has something to say, `AllocFails`, `StartCast` and
`EndCast` are `sendnlmsg`; `Deliver` and `Overrun` are what netlink does with a message
for one receiver: into its queue, or dropped, and then the next `recvmsg` fails once
(`sk_err`) and the socket takes nothing before it was emptied (`congested`). A
receiver alternates `Receive` or `ReceiveFails` with `Printf`, which prints the
buffer in either case. `offered` and `missed` are history. The socket is external,
as Linux 2.6.32 has it: nobody is bound or leaves during a broadcast.

## 3. Runs

| Run | Instance | Distinct states | Shows |
|---|---|---|---|
| `list_single` | 1 writer, 1 check, 2 addresses, 6 texts, 4 requests | 241 000 | everything about the list and its walks when write handlers take turns; handlers and checks end |
| `list_race` | 2 writers, 2 addresses | 2.5 million | what still holds before a clash, and that writers die only of named causes |
| `getdents` | 4 records (two of one inode) in a buffer of 5 cells, lengths wrap at 4 | 216 000 | the filter is exact, honest and complete, and ends |
| `getdents_error` | the same | (stops at the violation) | the error branch is not taken |
| `interception` | 2 tasks, 2 loads, 2 hooked calls, both trusting, one hungry | 453 000 | the table, what is left behind, who dies; rmmod ends |
| `manager` | 2 managers, 3 nodes between them | 126 000 | the lists, their tails, the numbered lists and the orders given to them, who is enforced |
| `hooks_names` | 1 thread, 8 calls, every name of up to 3 tokens and 4 longer ones, a tree of 4 objects | 711 000 | which spelling of a name meets which rule; buffers are freed |
| `hooks_race` | 2 threads, 3 calls, 2 names, rules that come and go | 993 000 | a call gets by a rule only over a changed name or tree |
| `inode_life` | 3 files, 2 of one number, 2 addresses, 2 tasks | 66 000 | when the checks by address and by number go wrong |
| `notification` | 2 senders, 5 messages, 1 receiver, room for 2 | 107 000 | order, losses, what is printed twice; nobody waits |
| `managed` | 2 managers and a control program, lists of 1 file of 2, 1 address, 2 inodes for the /proc file | 385 000 | the text in force and the lock-out while walks and handlers overlap and the /proc file gets other inodes; a change ends |
| `older_manager` | lines of up to 2 characters of 5, lists of 2 files | 843 000 | answers and questions stay together; the list that comes of any answers is enforced |

Why the bounds are enough. *Addresses*: with two nodes a list has a first and a
last one, a walk stands on either while the other is added, linked or freed, and
nodes that are lost, or another writer's, use the addresses up; a middle node
matters only to removals, which are the managers', and a manager of `managed` has one
file at most. Memory fails whenever it likes, not only when the addresses are used up.
*Texts*: one per way through the parser (good lines, a missing file, a
blank line inside, a line without `@` that opens, past the page, past the
buffer); the words of the control file are `refresh`, `disable` and `enable` in
`list_single`, `clear` and `disable` in `list_race`; `PageLines` and `BufferLines` stand for 4 KB and 64 KB. *Tasks*: a race is
between two; `list_single` has the pair writer and reader, `list_race` writer and
writer, `interception` the module with two tasks, one of which may free the list
the other walks or rebuilds. Both calls of `interception` take their arguments
unseen, one of them also allocates. *Loads*: the second finds what the first left. *Records*: four
allow a hidden one at the front, in the middle, at the end, two in a row, and one
that makes the length wrap; the inode shared by two records makes a hard link.
*Nodes of a manager* (`ThreeNodes`): removing the first, the middle, the last, the
only one, and a list against another one.
*Names*: three tokens spell a component, a slash before it or behind it, two
components, an absolute name and `..` in each place; the four longer names are the
absolute name of the file and the ones with a slash too many. The run has one set of
rules, with rules on the root and on a relative name in it. kmalloc may fail at
every place (`MemoryFails`), and a buffer is clean or begins with a protected path.
*Files*: an inode that is dropped and one that takes its place, at the same address or
with the same number. *Messages* (`FiveSent`): a message in the queue, one behind
it, one lost, and one of each sender after the loss. Receivers share nothing but the
order in which a broadcast reaches them, so one is enough for what it prints. *Files
of a `ManagedList`*: a rule and a rule on the protect file, which may have two inodes of
one number; a text that kills its writer is in `list_single` and `manager`, and memory
may fail for any text; nothing is claimed after a clash, so the run ends there
(`Unclashed`). *Lines of `OlderManager`*: an empty line, one character, and
one character too many, each of which may be a command or a kind.
The proofs remove the bounds for the properties in section 5.

`CHECK_DEADLOCK` is switched off for `older_manager` only, because that program
ends. In every other module some call, rule change or restart is always possible.

### Finding

`getdents_error`: `buf_length` is an `unsigned int`, so `if (buf_length <= 0)`
(`fsprotection.c:174`) is true for 0 only. The comment in the branch says
`// return when error`; for an error the hook instead calls `kmalloc` with the
error as a size of almost 4 GB. That allocation fails, and the error is returned
after all, through the branch for lack of memory.

### What holds only with an exception

Several properties name the situations the code does not survive. They are
conditions in the formula, so a reader sees exactly how far the code can be
trusted: a check may die while a list is being taken down, of a descriptor that is not
open, or for want of memory where it should have refused (`FaultNeedsOverlap`); a
writer may die of its own text or for want of memory (`WriterFaultExplained`); a load that fails
half-way leaves the table in ruins (`HooksMapped`, `LeavesNothing`); unloading
under a running task kills it, and so do handlers that meet in the list, while
nothing at all is claimed for a task without memory or with arguments nobody looks at
(`FaultExplained`); rmmod hangs after a handler died, or dies itself of the list of
one that has not (`UnloadEnds`); a listing may end early or come unfiltered after one of the
mishaps (`ListingHonest`, `ListingComplete`). A call gets by a rule on a name when
the name is spelled roundabout, given from the root directory or from another
directory, changed in memory or in the tree after the check, or when memory failed:
`Excused` lists the cases (`RuledObjectsKept`), and `RefusedRightly` names two
kinds of call that are refused without a rule on what they name. A rule is about
another file, or about none, after its inode was dropped from memory, and hides other
files of the same number (`FdVerdictRight`, `InoVerdictRight`). Managers that meet
inside the kernel lose every guarantee (`InForce`, `LockHolds`); managers that have
locked themselves out are free when all of them have gone and the /proc file gets
another inode (`LockHolds`). The older manager
understands only an operator who answers as asked (`Understood`, `Heard`).

## 4. Fairness

`ProtectList!FairSpec`: weak fairness of each handler's and each check's own
steps. A task inside a system call is scheduled until it returns; nobody has to
make a call. `CheckEnds` and `WriteEnds` need no more.
`Getdents!Spec`: weak fairness of the hook's steps, for the same reason. Rule
changes are not fair and may go on for ever. `Interception!ModuleFairSpec`: insmod,
rmmod and tasks inside the module are run; there is no fairness for the real
system call, which may sleep for ever, and `UnloadEnds` holds all the same as
rmmod does not wait for it. `Notification!FairSpec`: a sender is in the kernel and
runs on, a receiver is a program in a loop and is run; nobody has to send, start
or end. `ManagedList!FairSpec`: a manager in its `write` goes on, through hook and
handler; operators and other programs need do nothing. `OlderManager!FairSpec`:
the program is run whenever it does not wait for its terminal; the operator need not
type. `Manager` and `Hooks` state no liveness: an operator need not do anything, and
the hooks wait for nothing but the real call, which may sleep.

## 5. Proofs

All constants are arbitrary in the proofs: any sets of tasks, any addresses, any
texts, directories, hooks and managers. The assumptions are the named ASSUMEs of the
modules (`TextAssumption`, `ConstantsAssumption`, `GetdentsAssumption`,
`InterceptionAssumption`, `InodeLifeAssumption`, `HooksAssumption`,
`NotificationAssumption`, `ManagerAssumption`, `ManagedAssumption`,
`OlderAssumption`), which TLC evaluates in the runs. They give the constants
their types; those that say more are few: NULL is no address, name or task, the
scratch buffer is at least as long as a page, a record of a directory takes at least
one cell and fits the caller's buffer, and a buffer that could be allocated is not as
long as an error code read as a length; a queue has room for a message; a manager has
finitely many addresses; a name is a finite sequence of tokens and the root directory
has the empty place; a line that is typed ends with the only newline in it, and the
path of several characters is one that does not open.
One theorem, `RefusalsRight`, has a hypothesis about the constants besides, the one
named in the table.

| Theorem | Module | States |
|---|---|---|
| `TypeCorrect` | `ProtectListProofs` | `Spec => []TypeOK` |
| `HeapSafe` | `ProtectListProofs` | `Spec => []HeapShape` |
| `FaultSafe` | `ProtectListProofs` | `Spec => FaultNeedsOverlap` |
| `VerdictSafe` | `ProtectListProofs` | `Spec => VerdictExact` |
| `ListFaithful` | `ProtectListProofs` | `Spec => []ListMatchesText` |
| `WriterFaultSafe` | `ProtectListProofs` | `Spec => WriterFaultExplained` |
| `PolicyImplemented` | `ProtectListProofs` | `Spec /\ [](~clashed) => ImplementsPolicy` |
| `OneManagerPolicy` | `ProtectListProofs` | `Spec => ImplementsPolicy`, with one writer |
| `FilterIsExact` | `GetdentsProofs` | `Spec => []FilterExact` |
| `ListingsHonest` | `GetdentsProofs` | `Spec => []ListingHonest` |
| `ListingsComplete` | `GetdentsProofs` | `Spec => []ListingComplete` |
| `InodesTyped` | `GetdentsProofs` | `InodeSpec => []InodeTypeOK` |
| `FdVerdictsRight` | `GetdentsProofs` | `InodeSpec => []FdVerdictRight` |
| `InoVerdictsRight` | `GetdentsProofs` | `InodeSpec => []InoVerdictRight` |
| `HooksHoldNothing` | `HooksProofs` | `Spec => []NothingHeld` |
| `RuledKept` | `HooksProofs` | `Spec => RuledObjectsKept` |
| `RefusalsRight` | `HooksProofs` | `Spec => RefusedRightly`, with rules as d_path writes paths |
| `NothingSilentlyLost` | `NotificationProofs` | `Spec => []NoSilentLoss` |
| `BoardImplemented` | `NotificationProofs` | `Spec => ImplementsBoard` |
| `LifeTyped` | `NotificationProofs` | `ModuleSpec => []ModuleTypeOK` |
| `TableMapped` | `NotificationProofs` | `ModuleSpec => []HooksMapped` |
| `UnloadSafe` | `NotificationProofs` | `ModuleSpec => []LeavesNothing` |
| `TasksSafe` | `NotificationProofs` | `ModuleSpec => FaultExplained` |
| `ShapeKept` | `ManagerProofs` | `Spec => []ListShape` |
| `BookImplemented` | `ManagerProofs` | `Spec => ImplementsBook` |
| `StaysInStep` | `ManagerProofs` | `Spec => []InStep` |
| `StaysInForce` | `ManagedListProofs` | `Spec => []InForce` |
| `LockStays` | `ManagedListProofs` | `Spec => LockHolds` |
| `UnderstoodAlways` | `OlderManagerProofs` | `Spec => []Understood` |
| `TakenAsMeant` | `OlderManagerProofs` | `Spec => []InStep` |

*The list.* `TypeOK` is inductive with one addition: a handler about to link a
node has one (`LinkHasNode`). The properties about faults and answers are not
inductive; they rest on `Heap`, the conjunction of: the list is what the pointers
spell and at most one handler is at it (`Spelled`); nodes are allocated and
complete unless the list is being taken down (`Standing`); no node is off the list
but the one being linked or a lost one (`Owned`); where each handler's cursors are
at each place (`Placed`), in particular that what a `destroy_list` has freed is a
prefix of the list; and that an undisturbed walk stands on the list with no match
behind it (`OnTrack`). `Heap` holds until the first clash and a clash is never
forgotten, so the induction is on `~clashed => Heap`, one lemma per action.
`FaultSafe` follows because an undisturbed walk stands on an allocated node, and when
it is about to send its notice this node is the first on the list that matches;
`VerdictSafe` because the walk's next step can only be the first match or the end
of the list.

*The list and the text.* `TextInv` ties a handler to the text it was called with:
what it was given stays what it was called with (`Called`), the scratch buffer holds
its text while it reads from there (`OwnBuffer`), the list is the rules of the lines it
has passed, and nothing but those (`ReadUpTo` within `Building`), and a list at
rest is the rules of the whole text (`Settled`). One lemma about the parser carries
it, `LinesReadIs` of `ProtectTextProofs`: what is read in after one more line follows
from what was read in before. `WriterFaultSafe` needs `Heap` to exclude wild pointers
and `Building` to know that the text is the one asked for.

*The policy.* The refinement maps the list to no rules while it is being taken
down or the nodes hang off a freed root, and a check to the answer it still may give
(`RulesSeen`, `ChecksSeen`). Each step of a handler then withdraws the rules,
adds one at the end or changes nothing, and each step of an undisturbed walk
answers or changes nothing, or dies in its notice where the policy has a check that
would refuse (`PolicyStep`). After a clash there is no list to speak
of, which is why the theorem has the proviso; `OneManagerPolicy` shows that with one
task writing the proviso is always met.

*Listing a directory.* A walk by `d_reclen` is a recursive function of the offset;
`WalkLinked` shows that over a buffer in which each record leads to the next
(`Linked`) it meets the records that start in it, each once and in the order of the
directory; the real call gives such a buffer (`Laid`). `IInv` says of
the loop: the part before the cursor is such a buffer (`Filled`), the cursor stands on
a record or behind the last (`Cursor`), the part behind it is as the real call left it
(`Rest`), what was judged is visible or hidden and nothing else (`Judged`), and a walk
over the part before it meets the kept ones and no others (`Exact`). A merge lengthens
the record before the hidden one, and is exact as long as the sum fits `d_reclen`.

*Loading and unloading.* The induction is on `Sound`, which says phase by phase
what is set up: where the table may lead and up to which entry it has been put
back (`TableSound`), which of buffers, files, socket and list exist
(`ResourcesSound`), and that a task that was not torn is in the text of a module
that stays, or of one whose rmmod was killed (`TasksSound`). It is claimed only while
no load has failed. `TasksSafe` goes through the steps that end in "oops" one by one:
each needs what the property names, or a task in text that is gone.

*Inodes.* What the checks compare are addresses and numbers, which say nothing of
files; the induction (`IInv`) carries what ties them together: no two files share an
address (`Apart`), the number at a file's address is the file's (`Numbered`), what
is open stays in memory (`HeldOpen`), and the address a rule keeps is the address of
the file its line named until an inode leaves it (`Faithful`). A wrong verdict then
needs a rule that is `lost`, or for numbers a named file with the same number.

*Names.* What a hook compares is a text, what a call acts on is a place in a tree, and
the proof is about how the two agree. `WalkSpells` follows the kernel from a place
along the tokens of a name: as long as there is no `.` or `..`, where it has come is
spelled as where it began and the tokens behind, with one slash in front of each
component (`SpellMore` is the step). For a name that is regular up to its last
component (`Regular`), and a current directory that is not the root, the text
`getNewFullPath` makes of it is then how `d_path` writes the object (`FullPathNames`),
and what `getParentDirFromFullPath` cuts off it how it writes the directory a new one is
to be made in (`ParentNames`); chdir's name, which is judged as given, is its own text
when it is absolute (`PathNamesItself`). Names, trees and places may be of any length
and shape. `HInv` says of a thread: without a call it holds no buffer
(`Idle`), only rename comes to a second name (`OneName`), from the moment it is built
and unless something came between, the full path is that of the copied name and the
directory still the one it was built from (`Prepared`), and what passed the check is
written as nothing that a rule named then (`Weighed`). With it, one lemma per real call
(`UnlinkSpares`, `RenameSpares`, `MkdirSpares`, `ChdirSpares`) shows that a call that is
not excused acts on the place that was judged. The conditions of the four are the
excuses of `RuledObjectsKept`, so the theorem says that there are no others.

*Refusals.* `RefusedRightly` is the converse: from the text to the place. It is not true
for every value of the constants: with a rule such as `/d//f` a call is refused
whose full path is spelled the same, though no object is named by the rule. The
theorem has the hypothesis `RulesAsWritten`: the path of a rule is written as `d_path`
writes paths, or is relative (which matters to chdir alone, the exception in the
property); TLC evaluates it for the rules of the runs (`MCHooks`). The name may be
anything. Where its full path is the text of such a rule, the directory it was built
from was neither the root (but for mkdir's name of one component) nor removed
(`SecondToken`), the name is then in step
with the text behind it, and the way along its tokens comes to the place of the text
(`FullPathDenoted`; `ParentDenoted` for mkdir, `WrittenNamesItself` for chdir).
`DenotesIs` and `Tracks` let the lemmas about the kernel's walk serve for what a name
denotes, too. A second invariant, `Judges`, holds while others move the tree, which
`Prepared` does not: the full path is that of the copied name and of the directory where
it was when the path was built (`Built`).

*Messages.* For each receiver: what is printed a second time is paid for by a message
that was missed (`Counted`); the message printed, the one in the buffer and those in
the queue are in their senders' order (`Ordered`); whatever a receiver has or has
seen was sent (`Past`); and each message sent to it is printed, held, queued, still to
come, or covered by a loss (`Accounted`). `Accounted` is `NoSilentLoss`, the others
give the step of `NoticeBoard`.

*The managers.* `Chain(m, s)` says that the pointers of m lead through the nodes of s,
all different and all m's own, to a NULL, and that the tail is the last of them. The
invariant is `Chain(m, Nodes(m))`, one lemma for adding and one for removing, one for
a manager that looks on. `BookImplemented` shows of each operation that the files along
the chain are then what the order makes of the files before (`AdditionObeyed`,
`RemovalObeyed`): `removeFile`, which counts nodes from 0, unlinks the entry the
operator's number has in the sequence, and for a number the sequence does not have it
comes to the end of the chain (`Shows`). What `refreshFileList` writes and what the kernel reads of
it agree by `TextUnderstood`: at each file's first line the parser has read in
exactly the files before it (`Cut`). `TextUnderstood` concerns files and their text
alone, and says for every list what the run `manager` sees for short ones.

*Managers on the list.* Every step of `ManagedList` is in the kernel a step of
`ProtectList` or none (`KernelStep`), so `ListFaithful` and `VerdictSafe` hold of it:
`Kernel` is an instance of `ProtectListProofs`, with every text that can be written. The
invariant (`IInv`) adds where the kernel has each manager (`Placed`), that a handler was
called with the text of its manager's list, and that the text being installed is that of
the manager in step (`GoalOf`); `TextUnderstood` turns the text into what the operator
means. For the lock, a check that no `destroy_list` disturbs must meet the rule by
`VerdictSafe`, and no handler is there to disturb it (`LockStep`). The inode of the /proc file changes only while no manager is
in its hook, so a check that has begun asks for the inode the rule was compared with.

*The older manager.* The three ways to read leave different things in stdin, so the
invariant says for every place of `main` what is left there and how far its operator is
(`Together`: `AtMenu`, `AtEatPath`, ..., `AtStart`), for instance that at the
prompt for a kind two characters are waiting when the operator has answered, and that
the list with that answer is the one that was asked for. It needs that what is left of a
line ends as the line did (`Ended`) and that where a character is to be thrown away one
is there (`Fed`). `Taken` ties the rules to the text that was written. Its meaning is
that of the files up to the first type of the two that end a text: an end of line leaves
a blank line, at which the kernel stops, and a 0 ends the buffer. `TextMeant` shows
from `TextUnderstood` that nothing else comes of such a list.

*Recursion.* Walks, texts and lists are defined by recursive functions over the
naturals or by folds. `LeastNumber`, `CountUp` and `CountDown`, which follow from the
well-foundedness of the naturals, stand in for induction: a property of numbers that
fails somewhere fails somewhere for the first time.

### Only model-checked

The liveness properties `CheckEnds`, `WriteEnds`, `CallEnds`, `UnloadEnds`,
`SendEnds`, `LossShows`, `RefreshEnds` and `Heard` rest on fairness and on ENABLED,
which the proof system does not treat, and `NoAllocOnError` is the one that fails. Every
other property of the runs is proved; `RefusedRightly` with the hypothesis above,
`ImplementsPolicy` for one writer or while no two clash.

## 6. Plan

Every part of the system that keeps a state is modelled, and every safety property of
the runs is proved. What could be added: that a handler and a check need at most as many
steps as text and list are long, which is the part of `WriteEnds` and `CheckEnds` that
does not depend on fairness.

## 7. Not modelled

The netlink sample (`User/Notification`) and the readline sample are stand-alone
examples that are not built into the system. Console output and build files hold no
state that the rest of the system depends on. `getFs`, `isFileProtected`,
`isInodeProtected` and `isPathProtected` are test code without a caller that acts on
it; `getPathFromFd` and `getNewPathFromFd` have no caller. Bytes of names and
messages, among them the overruns of a 256-byte name (`communicate.c:250`,
`complexuser.c:265`) and names longer than the hooks' buffers, the contents of
`/proc` reads (always empty), the temporary page that each write leaks
(`communicate.c:273`), and the reference to a path that `getfullPath` takes and
never gives back (`utilities.c:105`) are left out: nothing else depends on them.
Neither are links, mount points and the permissions of the real calls.
