# xHarbour: a verification development

TLA+ specifications of the parts of xHarbour's virtual machine where a slip is
hardest to test: the gate through which every thread reaches its evaluation
stack, the life of a thread and the objects that name it, the mutex object of
the language, the `SYNC` methods of classes, the garbage collector with the
counting of holders beside it; and, outside the VM, the locks of files and of
shared tables, the keyboard buffer and the idle tasks. TLC checks each of
them on small instances; TLAPS proves the theorems listed below for every
value of the constants. Paths are relative to `src/xharbour/`; line numbers are
those of the commit that is checked in there.

Contents: [inventory](#inventory) · [modules](#modules) ·
[runs and bounds](#runs-and-bounds) · [fairness](#fairness) ·
[proofs](#proofs) · [what the documents promise and the code does not
keep](#what-the-documents-promise-and-the-code-does-not-keep) ·
[not modelled](#not-modelled) · [plan](#plan)

## Inventory

xHarbour compiles the xBase language (PRG) to p-code that a virtual machine in
C executes. The compiler, the preprocessor and the macro compiler are
sequential translators; the libraries above the VM are mostly sequential too.
State that several parties touch, and code that is called back in the middle of
something, is in the VM and in the database drivers.

| Component | Where | State it keeps | Operations | Talks to |
|---|---|---|---|---|
| Running stacks, idle inspectors | `source/vm/thread.c`, `include/thread.h`, `source/vm/consmt.c` | `hb_runningStacks` (count, fence, mutex, condition), `bInUse` and `uiIdleInspect` of each stack, `hb_bIdleFence` | `HB_STACK_LOCK`, `HB_STACK_UNLOCK`, `hb_threadWaitForIdle`, `hb_threadIdleEnd`, `hb_threadWaitAll` | every blocking call; the collector, the error handler and `KillAllThreads` are inspectors |
| Thread functions | `source/vm/thread.c` | the list of stacks, `HB_THREAD_ID` objects and the record `HB_THREAD_READY` they share with the stack | `StartThread`, `GetCurrentThread`, `StopThread`, `KillThread`, `JoinThread`, `KillAllThreads`, the terminator | the gate, the mutexes of a dying thread, the collector that finalizes objects |
| PRG mutexes, notifications | `source/vm/thread.c` | `HB_MUTEX_STRUCT`: owner, count, queue of events, number of subscribers | lock, try, timed lock, unlock, `Notify`, `NotifyAll`, `Subscribe`, `SubscribeNow` | the gate (each blocking call gives the stack back) |
| SYNC methods | `source/vm/classes.c`, `source/vm/hvm.c` | `pSyncId` list of each thread, `pMtxSync` of each class | send, return, `Subscribe` | PRG mutexes |
| Garbage collector | `source/vm/garbage.c` | the lists of blocks, their flags, `s_uUsedFlag`, `s_bCollecting` | alloc, free, lock, unlock, collect | inspects all stacks; calls destructors, which are PRG code |
| Items, arrays, hashes, code blocks | `fastitem.c`, `arrays.c`, `hash.c`, `codebloc.c` (all in `source/vm`) | counts of holders, release flags | copy, clear, release | collector, destructors |
| Class engine | `source/vm/classes.c` | class table, methods, scopes | `hb_clsFinalize`, send, create | collector, SYNC methods |
| VM executor, evaluation stack, memvars, dynamic symbols, errors | `source/vm/*.c` | frames, privates, symbol table, action request | p-codes, `BEGIN SEQUENCE`, `Break` | everything |
| Work areas and DBF drivers | `source/rdd/` (`dbf1.c`, index and memo drivers) | the buffer of one record, flags, the list of locks; header and records in the file; index pages | go to, lock, unlock, append, change, roll back, flush, close; seek, skip | other stations through the file and its locks |
| Files | `source/rtl/filebuf.c`, `filesys.c` | for each file the table of the ranges that threads of the process have locked | open, lock, unlock, close | the DBF drivers; the locks of the operating system, which know processes only |
| Terminals, keyboard buffer | `source/rtl/hbgtcore.c`, `inkey*.c` | a ring of keys, stuffed text, the last key | put, insert, peek, `INKEY()`, `KEYBOARD`, `SET TYPEAHEAD` | idle tasks, which run while `INKEY()` waits |
| Idle and background tasks | `source/rtl/idle.c`, `bkgtsks.c` | lists of code blocks and an index | add, run, delete | code blocks that change the lists while they run; the collector |
| Sockets, signals | `source/vm/inet.c`, `source/rtl/hbserv.c` | handles | wrappers of system calls | the gate |
| Compiler, preprocessor, macro compiler, run-time library, tools | `source/compiler`, `source/pp`, `source/macro`, `source/rtl`, `contrib` … | none that outlives a call | translation, functions on values | |

`PROJECT.json` has the complete list, with what is modelled of each part.

### How the parts interact

A PRG thread owns its evaluation stack and every object reachable from it, so
no lock guards a stack. A thread that wants to see the other stacks becomes an
*idle inspector*: it waits until the count of stacks in use is zero. Each
blocking call (a sleep, a read, `Subscribe`, `MutexLock`) gives the stack back
first and takes it again afterwards, and so does the executor now and then
(`HB_VM_UNLOCK_PERIOD`). The idle fence keeps the others out until a
waiting inspector had its turn. The collector runs as an inspector, marks what
the stacks of all threads reach, calls the destructors of what they do not, and
frees it. A destructor is PRG code: it allocates, drops, stores and may release
other blocks by counting while the collector walks its list.

### What is hard, and the properties that make each part right

* **Gate.** Conditions waited for on one mutex by four kinds of waiters; a
  fence that is lowered and signalled *without* the mutex; cancellation that
  lands in a wait. Right means: an inspector is alone (`Exclusive`), the count
  is the number of stacks in use (`CountKept`), a raised fence has someone who
  lowers it (`FenceHasOwner`), nobody dies with the mutex (`NoOrphanMutex`),
  the fence holds back who released (`FenceHolds`), waiters get in.
* **PRG mutex.** Lockers and subscribers share one condition; a dying thread
  frees its lock without the system mutex. Right means: a reentrant lock
  (`LockSpec`), no sleeper beside a free mutex or a queued event, no event
  lost, doubled or reordered (`Conserved`), exact counting of subscribers.
* **SYNC methods.** Several mutexes in one list, given up by `Subscribe` and
  taken again one by one.
* **Collector.** Two ways to free one block, destructors in the middle of each,
  flags whose meaning flips. Right means: nothing in use is freed
  (`NoDangling`), counts never fall short (`HoldersCounted`), all unreachable
  blocks go (`CollectsAll`), each object is finalized first.
* **Threads.** A thread, the objects that name it and the system know each
  other by pointers, a shared record and an id, which end at different times and
  under different locks. Right means: the record is freed by the last holder
  (`ReadyCounted`), no object points to a stack that is gone (`HandlesChained`),
  when `JoinThread` returns .T. the thread has left its code and its mutexes
  (`JoinTrue`), no thread is left behind in the system (`Reaped`).
* **File locks.** A search by halves over an array that is joined, split, grown
  and shrunk. Right means: it is the set of the bytes locked, and the range that
  is asked for is refused exactly when it conflicts with them (`IsByteLocks`).
* **Shared tables.** Between any two accesses to the file another station may
  act, fail or stop. Right means: locks exclude and no update is lost
  (`TableSpec`), a changed buffer is locked and current (`HotHeld`), the header
  counts the records (`HeaderTrue`, `HeaderNotAhead`), a work area knows its
  locks (`LocksKnown`), and nobody waits for ever (`Returns`).
* **Keyboard buffer.** Two buffers with two ends, replaced under a waiting
  `INKEY()`. Right means: a queue, each call of which returns the key that is
  next, and that loses a key only where the abstract queue says so (`QueueSpec`).
* **Idle tasks.** A list that is walked by an index while its entries change
  it. Right means: no task twice in a round (`OnceARound`), and rounds go on
  while the index is in the list (`RoundsRepeat`).

The list of single hazards, each at its line, is in `PROJECT.json`.

## Modules

| Module | Models |
|---|---|
| `StackGate` | abstract: any number of threads use their own stacks, *or* one inspector uses all |
| `RunningStacks` | the gate in detail; implements `StackGate` (`GateSpec`) |
| `RunningStacks_proofs` | its theorems |
| `ReentrantLock` | abstract: the lock that `doc/thread.txt` describes |
| `MutexObject` | the mutex object; its lock implements `ReentrantLock` (`LockSpec`) |
| `MutexObject_proofs` | its theorems |
| `SyncMethods`, `SyncMethods_proofs` | SYNC methods on top of mutexes that behave as `ReentrantLock` says |
| `GarbageCollector`, `GarbageCollector_proofs` | arrays, objects, their holders, the collector and destructors |
| `ThreadLife`, `ThreadLife_proofs` | threads from start to end, the objects that name them, join, stop and kill |
| `ByteLocks` | abstract: the set of the bytes of a file that are locked, a request for a range, and its answer |
| `LockTable`, `LockTable_proofs` | the table of locks of `filebuf.c`; implements `ByteLocks` (`IsByteLocks`) |
| `SharedTable` | abstract: records that are locked by one station, which alone changes them |
| `RecordLocks`, `RecordLocks_proofs` | the work areas and the file of a shared table; implements `SharedTable` (`TableSpec`) |
| `KeyQueue` | abstract: a bounded queue of keys behind stuffed text, one step for each call |
| `KeyBuffer`, `KeyBuffer_proofs` | ring, text and `INKEY()`; implements `KeyQueue` (`QueueSpec`). The proofs are also those about `IdleTasks` |
| `IdleTasks` | the list of idle tasks and its rounds |
| `MC…` | the sets of threads and blocks that TLC uses |

Hard cases are a constant: the set `Cases` names what the program is allowed to
meet (a cancellation in a certain wait, a failing `pthread_create`, a
destructor that stores Self …). With all of them the code breaks many of its
promises, and no property would survive; with a named set each run says under
which usage a property holds, and the theorems carry the same set as
an explicit assumption (`Disciplined` and the like). Operators that carry the
comment `Mutant` are slips used to show that a property can fail; no
specification uses them.

### RunningStacks

The model is of the POSIX build with threads. A critical section of the
`Mutex` is one step, for nobody else reads or writes in between what it
guards; `hb_threadIdleEnd`, which takes no mutex, is two steps of its own
(`IdleEnd` lowers the fence, `IdleSignal` signals) that interleave with the
test of the fence (`TestFence`) and the wait that follows it (`FenceWait`).

| Model | Code |
|---|---|
| `content`, `aux`, `owner`/`depth`, `waiting` | `hb_runningStacks.content.asLong`, `.aux`, `.Mutex` (recursive), who is asleep on `.Cond` |
| `bInUse`, `uiIdleInspect` | the fields of `HB_VM_STACK` |
| `bIdleFence`, `asked`, `saved` | `hb_bIdleFence`; what `ThreadIdleFence` last set; the copy of the error handler |
| `pc` | where a thread is between two critical sections |
| `StackUnlock`, `TestFence`, `FenceWait` | `HB_STACK_UNLOCK`; `HB_STACK_LOCK`, whose waiter tests again when it wakes |
| `WaitForIdle`, `IdleWake`, `IdleEnd`, `IdleSignal` | `hb_threadWaitForIdle`, `hb_threadIdleEnd` |
| `RestoreFence` and place `forced` | the part of `hb_errLaunch` that forces the idle fence |
| `StartThread`, `StartThreadFails`, `Exit`, `Cancel`, `TestCancel`, `CancelInFence`, `CancelInIdle`, `Terminate` | `StartThread`, `hb_create_a_thread`, `KillThread`, `hb_threadKillAll`, `hb_threadTerminator`, `hb_threadResetAux` |
| `WaitAll`, `AllWake` | `hb_threadWaitAll` |

`asked` and `failed` are history variables: they are read by properties and by
the bound on failures only.

### MutexObject

A critical section of the system mutex `crit` is one step, but for `MutexLock`
(test and wait, with `crit` held, are two steps, since `hb_mutexForceUnlock`
signals without it). Events are numbered in the order they are issued;
`issued`, `last` and `due` are history variables. `Modulus` stands for the
65536 of the `USHORT` counter. The stack is released and taken again around
each wait; that side is `RunningStacks`.

### SyncMethods

`entries` and `ulCount` are the sorted list `pSyncId` of each thread, `calls`
the SYNC methods it is in. `DelSyncID` keeps the loop of `hb_clsDelSyncID` as
it is: it finds the first entry or none (`First`). `hb_clsRemutexSync` takes
the mutexes one at a time (`RemutexSync`, `Relock`).

### GarbageCollector

One thread runs, since the collector is an inspector, but destructors nest.
`frames` is the C stack: the open calls of `hb_arrayReleaseBase` (`base`),
`hb_arrayReleaseGarbage` (`garbage`) and `hb_gcCollectAll` (`collect`). The
program acts when the stack is empty or its last call is in a destructor, so
that PRG code can run at every place the C code lets it.

| Model | Code |
|---|---|
| `list` | the circle from `s_pCurrBlock` on; walking is rotating |
| `locked`, `s_uUsedFlag`, `s_bCollecting` | `s_pLockedBlock` and the statics |
| `used`, `deleted` | the two bits of `HB_GARBAGE.used` |
| `ulHolders`, `uiFlags`, `pItems` | the fields of `HB_BASEARRAY`, items reduced to the blocks they hold |
| `roots` | the blocks held in variables, statics, stacks and grips |
| `New`, `Get`, `Store`, `Drop`, `Remove` | `hb_arrayNew`, `hb_itemCopy` to a variable or an item, `hb_itemClear` of either |
| `EndDestructor`, `ReleaseItem`, `Free` | the second half of `hb_arrayReleaseBase` / `hb_arrayReleaseGarbage`; `hb_gcFree` |
| `Collect`, `Cleanup`, `Advance` | mark; one block of the cleanup scan; the step after a destructor returned |
| `ReleaseBlock`, `Release` | the release scan frees a block; the flip of the flag at its end |

The marking is one step, and nothing else runs between two steps of the release scan. `Collection` remembers the unreachable blocks in `doomed`, which only
`CollectsAll` and the guard `MayStore` read.

`CollectEnds` says that a collection ends, or else that a destructor has freed
the block at which its cleanup scan is to stop (`StartListed`), which is all that keeps
it from ending (`CollectReturns`, in the table below). A first block that is garbage is
no exception: the cleanup scan marks it and it stays in the list until the release
scan, which takes another block to stop at when it frees this one (`garbage.c:979`).

### ThreadLife

The model is of the POSIX build; what `pthread_create`, `pthread_cancel`,
`pthread_join` and `pthread_detach` do is modelled from the calls in
`thread.c` and is external. Threads are named in the order of their start and
live once; `th_id`, the id that the system gives, may be that of a thread which
the system has forgotten.

| Model | Code |
|---|---|
| `stage` | `runs`; in `hb_threadTerminator` `ending`: before it detaches, `closing`: before it has `hb_runningStacks.Mutex`, `clearing`: with it, while the objects lose their stack, `destroying`: with the stack out of `hb_ht_stack`, `closed`: behind the mutex; `over` and `gone`: what the system knows of a thread that has ended |
| `ready`, `handle`, `pThreadID` | `HB_THREAD_READY`, `HB_THREAD_ID`, the chain of a stack |
| `call` | a function between its test of the object and the use of the id |
| `StartThread`, `StartThreadFails`, `GetCurrentThread` | the functions; a failed `pthread_create` leaves an object that is not ready |
| `Finalize`, `FinalizeEnd` | the two halves of `hb_threadThreadIdFinalize`, with the mutex and without |
| `JoinThread`, `StopThread`, `KillThread`, `GetThreadId`, then `SendCancel`, `Join`, `JoinRefused`, `JoinReturns`, `ReadId` | test, then use |
| `JoinAtOnce` | `JoinThread` reads `pStack` with no lock, and returns .T. as soon as the terminator has cleared it |
| `Detach`, `ClearObject` (one turn of the loop over the objects), `UnlinkStack`, `DestroyStack`, `End` | `hb_threadTerminator` |

As nobody takes the mutex to read `pStack`, each turn of the loop that clears it and the
unlinking of the stack behind that are steps of their own: `JoinThread` can return in between.
`tooEarly` records how far the threads were for which it returned .T. with the stack
still in the list; `JoinTrue` says that none of them was in its code or had a mutex of
the program left, and that `tooEarly` is not empty is what refutes `JoinWaits`.
`tooEarly`, `abandoned` and `undefined` are history variables. When the code
has read freed memory (`undefined`) the program stops in the model.

### LockTable

The steps of the search are actions of their own, for all that a result rests on
is what the search has left behind; a call runs under `S_FILEMTX`, so calls do
not interleave. `pLocks[i]` of the code is `pLocks[i + 1]`. `uiSize` is the
allocation. `ReallocMoves` lets `hb_xrealloc` return another address, which
leaves the pointer of `hb_fileUnlock` (`filebuf.c:317`) behind: `Split` then may
or may not cut the entry, and `intact` tells that it has not. What a program does
that has written into freed memory is not followed (`Call`).

`ByteLocks` sees the call as it is made: `asked` is the range of `ulStart` and
`ulLen` (`Asked`), and the answer is for that range. `Lock` and `Unlock` have no
choice: they are refused exactly when a byte of the range is locked, or is
not. `Break` is the one way out, an unlock from the middle of what is locked.

### RecordLocks

The state of a station is its work area (`area`: the fields of `DBFAREA` under
their own names). A call of the program is a list of steps (`todo`), one for
each access to the file or to a lock; each step may put further steps in front,
as the code calls further functions, and other stations act between any two.
The value of a record is the set of the stations that have updated it, which is
what a lost update shows in. The locks of the operating system are external.

| Model | Code |
|---|---|
| `Cold`, `Write`, `PutRec` | `hb_dbfGoCold`, `hb_dbfPutRec` |
| `WriteDBHeader`, `HeaderLock`, `Count`, `HeaderWrite`, `HeaderUnlock` | `hb_dbfWriteDBHeader`, `hb_dbfRawLock`, `hb_dbfCalcRecCount` |
| `LockRecord`, `LockStep`, `AfterLock`, `FileLock` | `hb_dbfLockRecord`, `hb_dbfLockFile` |
| `UnlockAllRecords`, `UnlockAllStep`, `UnlockStep`, `UnlockFile`, `FileUnlock` | `hb_dbfUnlockAllRecords`, `hb_dbfUnlockRecord`, `hb_dbfUnlockFile` |
| `AppendRecord`, `NewRecord`, `Blank` | `hb_dbfAppend` |
| `GetValue`, `PutValue`, `ReadRecord`, `MayGoHot`, `Put`, `RollbackRecord` | `hb_dbfGetValue`, `hb_dbfPutValue`, `hb_dbfReadRecord`, `hb_dbfGoHot`, `DBI_ROLLBACK` |
| `GoTo`, `GoBottom`, `Flush`, `RecCount`, `Close`, `Crash` | the functions of the same name; the end of a process |

### KeyBuffer

`pGT` is the part of `HB_GT_BASE` that keeps keys, `inkey` what `INKEY()` waits
for. The functions of `hbgtcore.c` are operators on that record, the
calls of the program are actions. While `INKEY()` waits, every other action
may happen, as an idle task can call each of the functions. Keys are plain ones, the
mouse move, which is not repeated and which a mask leaves out, and Alt+C, which
asks the program to stop instead.

`event` is a history variable: the last call, what it brought and what it
returned. `KeyQueue` reads it, and each call flips its `turn`, so that a call that does
nothing to the ring is a step of the queue all the same and has to be one that the queue allows.
A key that arrives is lost when the ring is full or the mouse moves again while
its move is the last key that came and the ring is not empty (`With`); one that waits goes when a mask leaves it
out (`Reads`), when a key is inserted before a full ring (`Insert`), or with all
others (`Reset`).

### IdleTasks

`running` is the task in `hb_vmDo`, during which tasks are added, deleted and
`hb_idleReset` is called. `ran` is a history variable, the tasks that have had
their turn in this round. `Behind` is where the index will be when the task
returns.

## Runs and bounds


| Run | Instance | States | Question |
|---|---|---|---|
| `RS_safety` | 3 threads, all may inspect, 1 failed start, 8 hard cases, symmetry of the two threads that are not main | 123,639 | is an inspector alone and is the count right, whatever is cancelled, fails or wakes up for nothing? Does the gate implement `StackGate`? |
| `RS_orderly` | 3 threads, one inspector, cancellation, fair | 1,976 | does each waiter get in, and does the fence hold for a single inspector? Deadlock is checked |
| `MX_lock` | 3 threads that lock and subscribe, 3 notifications, count modulo 4 | 122,172 | is it a reentrant lock; is each event returned once and in order, whatever times out, is cancelled or dies? |
| `MX_mixed` | lockers `t1,t2`, subscribers `t2,t3`, 2 notifications, fair | 9,321 | does anybody sleep beside what it waits for; are subscribers counted; are a free mutex and a queued event taken in the end? |
| `SY_safety` | 3 threads, 2 classes, one class per thread, depth 3 | 5,724 | SYNC methods of a class exclude each other. Deadlock is checked |
| `GC_collect` | 2 objects with destructors and an array, 2 holders each, fair | 597,068 | all safety properties of the collector, and that it ends |
| `TL_life` | 3 threads beside the main one, 2 objects at a time, ids used again, fair | 767,347 | is the shared record counted, does no object point to a dead stack, does `JoinThread` tell the truth, is each thread forgotten? |
| `LT_table` | a file of 7 bytes, allocation in steps of one entry, an array that may move, every sequence of calls | 87,880 | is the table the set of the locked bytes, and each request answered for its range? |
| `RL_shared` | 2 stations, 2 records, every call, fair | 294,145 | do locks exclude, is no update lost, does the header count, does every call return? Deadlock is checked |
| `RL_errors` | 2 stations (symmetric), 1 record, failing reads and writes, crashes | 20,682 | does a work area know its locks, is the header never ahead? Deadlock is checked |
| `KB_ring` | ring of 3 (and of 4 after `SET TYPEAHEAD`), 3 kinds of keys, text of at most 3 | 166,828 | are ring and text a queue, and does each call take and return what the queue does? |
| `IT_rounds` | 4 tasks, lists of at most 3, every deletion, fair | 4,012 | is a round a round, and do rounds go on while the index is in the list? Deadlock is checked |

Why these bounds are enough to meet the interesting cases. *Threads:* three
are an inspector, a second one that waits (or is cancelled), and an ordinary
thread; no guard of the code compares more than two threads with each other.
Slots of threads are reused, so any number of threads come and go. *Notes:* two
events make order and the theft of an event observable, three a queue from
which the middle is what remains. *Modulus:* three nested locks, and the wrap
only where it is asked for. *Depth* 3 lets a thread be in a SYNC method of
a class twice and leave one. *Blocks:* a cycle of two objects with an array
between, or an array that holds both, gives every order of release
between a sweep and counting; with `MaxHolders` = 3 and no locks the
safety properties were checked once more (903,618 states). `LongMax` needs to be
more than any count; `CountAssumption` says so. *Threads and objects:* three
threads beside main are what it takes that a thread ends, its id goes to another
one, and a third party in the middle of `JoinThread` uses that id; two objects at a
time give a stack a chain. The invariants were checked with three callers, too.
*File size:* seven bytes hold three ranges that do not touch, so that
one can be joined on either side and split, and every search meets an empty, odd and
even array. *Records:* with two a station holds one and appends another; with
errors one record suffices to lose it, and gives room for crashes at each step.
*Ring:* three places hold two keys, the least ring that can be full, empty
and neither. *Tasks:* one that runs, one before and one behind it, and a
fourth to take a place. `KB_ring` uses the view `Live`, which forgets places of
the ring and of the text that are not in use; `TL_life` the view `Told`, which forgets
that `JoinThread` returned while the stack of a thread that is out of business was still in the list
(without it there are 1,223,430 states; `JoinWaits` needs to be run without it).

The type invariants that no run names are proved.

Deadlock is not checked where the program may stop for good: a thread that is
cancelled with the fence's mutex (`fenceCancel`), or the system mutex
(`subCancel`), stops everybody; threads that all ended stop; a collector with no
block has nothing to do; a program that was asked to stop with Alt+C (`request`), has
read freed memory (`undefined`) or has written into it (`~intact`) stops. In the runs marked above none of these
applies and it is checked.

## Fairness

* `RunningStacks!FairSpec`. A step that was begun goes on (weak fairness of
  each action in the middle of a call). `StackUnlock` is strongly fair: the
  executor releases the stack every `HB_VM_UNLOCK_PERIOD` p-codes, whatever the
  program does; it is only *strong* because an inspection, which begins and
  ends within a p-code, disables it in between. `TestCancel` is strongly fair for a
  similar reason: a cancelled thread meets a cancellation point each time it
  has released its stack. An inspector ends its inspection. Nothing more is
  assumed of the program: it need not start, inspect, cancel or end. `Settled` and the other premises of the
  liveness properties say what is not guaranteed: that the program stops
  starting threads, or inspecting.
* `MutexObject!FairSpec`. Calls that were begun go on (`LockSleep`, `Terminate`);
  a thread that waits for `crit` after it was woken is treated strongly fair, since others
  take `crit` and give it back in finite time. No fairness
  of `Lock`, `Unlock`, `Notify` or of the order in which a mutex is granted.
* `GarbageCollector!FairSpec`. C code goes on, and a destructor returns.
  Nothing is assumed of the program outside.
* `ThreadLife!FairSpec`. The terminator goes on to its end and `pthread_join`
  returns when the other thread has ended; no thread need end.
* `RecordLocks!FairSpec`. A call goes on, weakly fair as nobody else can disable its next
  step, but for the lock of the header: `APPEND_LOCK` and `HEADER_LOCK` wait in
  the operating system until they get it, which is strong.
* `IdleTasks!IdleFairSpec`. The program waits in `INKEY()` or `HB_IDLESLEEP()`,
  which call `hb_idleState` again and again, and a task returns.

Liveness is model-checked only: it is out of reach of the prover.

## Proofs

All proofs are checked by TLAPS (SMT, Zenon, and PTL for the temporal steps).

| Module | Theorem | Assumes | Establishes |
|---|---|---|---|
| `RunningStacks_proofs` | `Invariance`, `TypeCorrect`, `Exclusion`, `CountIsKept` | `Disciplined` | `IInv`, `TypeOK`, `Exclusive`, `CountKept` |
| | `MutexReleased` | also `"fenceCancel" \notin Cases` | `NoOrphanMutex` |
| | `Refinement` | `Disciplined` | `Spec => GateSpec` |
| | `FenceIsOwned` | no `inspectorEnds`, no `nestedInspect` | `FenceHasOwner` |
| | `FenceIsKept` | no `idleFence`, at most one inspector | `FenceHolds` |
| `MutexObject_proofs` | `Invariance`, `TypeCorrect`, `EndFreesMutex`, `NoSleepBesideEvent` | – | `TypeOK`, `DeadHoldsNothing`, `SubscriberAwake` |
| | `NoSleepBesideFreeMutex` | no `dieHolding` | `LockerAwake` |
| | `WaitingIsExact`, `CritReleased` | no `subCancel` | `WaitingCounts`, `NoOrphanCrit` |
| | `EventsConserved` | no `subscribeNow`, no `notifyAll` | `Conserved` |
| | `Refinement` | no `wrap` | `Spec => LockSpec` |
| `SyncMethods_proofs` | `TypeCorrect`, `Exclusion`, `MutexesReleased`, `ListIsBalanced` | `Disciplined` | `TypeOK`, `SyncExclusive`, `Released`, `ListBalanced` |
| `ThreadLife_proofs` | `TypeCorrect`, `RecordIsCounted`, `ObjectsAreChained`, `JoinTellsTruth` | – | `TypeOK`, `ReadyCounted`, `HandlesChained`, `JoinTrue` |
| `LockTable_proofs` | `TypeCorrect`, `CapacityAlways`, `SortedAlways`, `SearchCorrect`, `TableIsByteLocks` | – | `TypeOK`, `Capacity`, `Sorted`, `SearchOK`, `Spec => IsByteLocks` |
| `RecordLocks_proofs` | `Invariance`, `LocksAreKnown`, `HeaderIsNotAhead` | – | `IInv`, `LocksKnown`, `HeaderNotAhead` |
| | `HotIsHeld`, `TableIsShared` | no `writeError` | `HotHeld`, `Spec => TableSpec` |
| | `HeaderIsTrue` | no `writeError`, no `headerError`, no `crash` | `HeaderTrue` |
| `GarbageCollector_proofs` | `Invariance`, `TypeCorrect`, `NothingDangles`, `HoldersAreCounted`, `OneFlag` | `Calm` | `IInv`, `TypeOK`, `NoDangling`, `HoldersCounted`, `SameFlag` |
| | `FinalizedBeforeFreed`, `AllCollected` | `Calm` | `FinalizedFirst`, `CollectsAll` |
| `KeyBuffer_proofs` | `TypeCorrect`, `TextLeftAlways`, `BufferIsQueue` | – | `TypeOK`, `TextLeft`, `Spec => QueueSpec` |
| – of `IdleTasks` | `TasksTyped`, `OnceARoundAlways` | – | `IdleTypeOK`, `OnceARound` |
| | `OnlyEndDeletions` | – | `[][EndDeletions]_idleVars` |

*RunningStacks.* `Exclusive` and `CountKept` are not inductive.
`IInv == Types /\ FencedHolds /\ PlaceInv /\ InspectInv /\ CountKept` adds what a
thread has at each place (a thread on a condition has neither the stack in use
nor an inspection), that who found the fence has the `Mutex`, and that the one
who inspects inspects once, with its own stack not in use. An inspector gets in
only at `content = 0`; `CountKept` then says that nobody is counted, which gives
`Exclusive`; and while it inspects the fence or the guard of the start of threads keeps
the others out. The cardinalities move by one at a time: the lemma `Counting`
says so and each action names the thread. `Disciplined` excludes just what breaks it:
an inspection within an inspection, a thread started by an inspector, and a
cancellation in the wait for idle when there is another inspector whose
fence it lowers. TLC refutes `Exclusive` without each of the three (table below).

The fence has two invariants of its own, for its promises hold under other
assumptions. `OwnedInv` adds to `FenceHasOwner` that a thread about to end
neither inspects nor waits to inspect, and that one which waits inspects nothing yet; it needs no
`Disciplined`, but that an inspector ends what it began, once. `WaitInv` says
that with one inspector who waits behind the fence, the fence is raised (`Raised`), as the option
that its errors save and restore is always up; `FenceHolds` is an action
property that follows from it step by step. With two inspectors, or with the
option changed, TLC refutes it (table below).

*MutexObject.* `IInv == Types /\ PlaceInv` ties the places to the owner and to
`crit`. `CountInv` (the size of the set of subscribers against `waiting`)
gives the type of `waiting`, which is an unsigned number that only that fact
keeps from falling below zero. `Conserved` is proved with two lemmas on
intervals as sequences, `NumbersGrow` and `NumbersShrink`, without induction.
The refinement maps the owner's count to `hold`.

*SyncMethods.* `IInv` adds to `TypeOK` that each thread's list has one class
(`OwnClass`), that its count is the number of its calls (`Counted`), what holds
at each place, and that a class that is executed is locked by who executes it
(`HoldInv`), which is `SyncExclusive` once and for all. `ListBalanced` follows:
all calls of a thread are of its one class, so their number is that of the
places in the list of calls.

*ThreadLife.* `IInv == TypeOK /\ MainStarted /\ ObjectInv /\ JoinInv`. `ObjectInv`
makes `HandlesChained` inductive: `Chained` says that the stack of an object is not only
there but still in the list, so that none is left when it is destroyed, and
that a ready object without a stack is that of a thread which is out of business;
`ActiveIsStack` says that the record knows whether there is a stack, which is
what `hb_threadThreadIdFinalize` goes by. `ReadyCounted` moves with the set of holders, by
one at a time. `JoinInv` is what `JoinTrue` needs: two threads that
the system knows have different ids, a call holds its object, and who is joined
is known, was not detached, and has the id of the object of its joiner. If the thread of the object were still in its code, or had mutexes left, it would be the one whose end was
waited for; and an object without a stack is that of a thread which has the mutex or
is behind it. More is not proved, as more is not true (`JoinWaits`). Ids used again need that the ids of started threads are ids of
earlier starts, so that a new one is new.

*LockTable.* Two invariants: `TInv` (types, `Capacity`, and that a call under
way has a request of the file) needs nothing else; `LInv == TInv /\ Sorted /\ SearchOK /\ (~intact => call = "none")`
adds the order, which is claimed while the table is `intact`. No hypothesis is needed on the array: the
step in which it moves under an unlock is one of its own (`SpoiltBytes`), which `ByteLocks` calls
`Break` and after which no call is made. A table is seen as two arrays of
numbers, starts and ends, and each of the four changes of the array (change,
insert, delete, join) has one lemma that says what it does to the order and one
that says what it does to the bytes (`Holds`). `SearchOK` at the end of the search
says that the entry found is the only one that can meet the range, from which each branch
of `hb_fileSetLock` and `hb_fileUnlock` refuses or changes what `ByteLocks`
does for the range that was asked for.

*RecordLocks.* The state of a work area is its fields and a list of steps that it still
has to do, and a step may happen only because of what the list looks like.
None of the properties is inductive without saying that, so there are three
invariants, one on top of the other.

`IInv == TypeOK /\ ShapeInv /\ LocksApart /\ LocksKnown /\ HeaderNotAhead` holds
in all `Cases`. `Shape` says of a list which step may come behind which and what
it may not end with (`Chain`), that a step about a lock agrees with
`fFLocked` and `pLocksPos` (`LockShape`), that who has the byte of the header has
`headerUnlock` or `newRecord` before it (`ByteShape`), that an append starts
with a record written (`ColdShape`), and that a count about to be
written is not above the records in the file (`CountShape`). Each function that makes a
list (`hb_dbfGoCold`, `hb_dbfUnlockAllRecords`, `hb_dbfWriteDBHeader` …) has a
lemma about what it puts in front of another list, and each step has one that `IInv`
survives it.

`HotInv == PlanInv /\ BufferInv /\ Room` holds besides without `writeError`.
`Plan` says what the list will do with the buffer: a changed one is written before a step
that gives a lock up or moves (`HotPlan`), what is put was read (`PutPlan`), the record
that is appended is the one behind the last and locked when it is filled (`BlankPlan`),
and it is written at once (`AppendPlan`). `Buffer` says that a changed buffer was read under its
lock, and that what was read under a lock is in the file but for
the station's own update. `Room` is the bound `Top`: each append under way has a
place left. `Acts` names what calls and steps have in common, a first step taken from a list that is
as planned, so that each step is looked at once; `HotIsHeld` and, with
the locks of each station as `held`, `TableIsShared` follow from it. With
`writeError` both are false: a lock is given up although the record could not be
written (`ChangedLocked`, table below).

`HeaderInv` holds besides when the header can be written and nobody stops: who still has to
write the count (`Owes`) has the byte and, once it has counted, the right number
(`Stamp`); and when the header is not true, somebody owes it (`Told`). An append
makes the table longer and owes the header by the same step, and it cannot spoil the count
of another station, as that one would have the byte.

*KeyBuffer.* `IInv == TypeOK /\ TextLeft`. The ring as a sequence is the places
from tail to head, counted modulo the size. `RingOK` says besides that the ring holds keys and
no zeros, which is why a read that returns none can only have met a mouse move or an
empty buffer. Each function has a lemma that says what step of the queue
it is: it leaves the queue as it was, loses a key, is the arrival of one
(`IsPut`) or a read (`IsRead`), with the key returned; `BufferIsQueue` combines them by the
action that calls them.

*GarbageCollector.* `IInv == Stack /\ Heap /\ Quiet /\ Sweep`, for any finite
set of blocks, linked in any way, and any depth of destructors in
destructors. TLC checked it with the constants of `GC_collect` before it was proved.

`Stack` says which calls can be open. A collection is the first or there is
none, and it waits in `advance` while there are others (`Shape`); while it or a destructor
is open, `s_bCollecting` is set, and each destructor that began meanwhile puts back
that it was (`Forbidden`); a block is released by one call (`Apart`). Without
`Forbidden` a destructor inside a sweep could collect, which is what
`nestedCollect` permits.

`Heap` says what the open calls mean for the blocks. The flags of a block that is
being released tell how far that is (`Flagged`), and the others are as
`hb_arrayNew` left them or the sweep is done with them (`Settled`). What is released through its last
holder has no other left (`Unheld`). The count is at least the number of holders
(`Counted`), with one more for a block whose destructor the *sweep* calls:
the Self that `hb_clsFinalize` pushes is a holder, and but for it an item that
the destructor drops could release the block a second time. With `Unheld` and
`Counted`, a count of one means that who drops its item is the last holder, so
that freeing it leaves no item behind; this is `NoDangling`, and
`HoldersCounted` is `Counted` for those that are not being released. Each program step has a
lemma on the set of holders: one more, one less, or the same.

`Sweep` says what a collection in progress knows. `Barrier`: what it spares holds
nothing it dooms, neither do variables and locked blocks, and the mark
bit is the border. It survives the destructors, which can follow only items that they
have: one that stores what is doomed in what is spared is the case `keep`, and
one that makes a block whose bit is on the wrong side is `sweepAlloc`. `Scan`: from the
place where the cleanup scan is to the block it began with there is each doomed block that is not yet
marked for deletion, also when a destructor frees blocks of the list, the first
one included (`Past`). At the end the doomed blocks that are left are
the deleted ones, the release scan frees them (`AllCollected`), and the flag that is
flipped is that of all others (`Quiet`, `OneFlag`).

`Calm == Cases \subseteq {"lock"}`: C code may lock and unlock blocks, but no destructor
collects, keeps what is doomed, or leaves a new block behind. That is not
to make the proof easier: with each of the three the code breaks
`NoDangling` (table below).

*IdleTasks* is proved about in `KeyBuffer_proofs`, which extends both, as tasks run
while `INKEY()` waits. `TasksInv == IdleTypeOK /\ Distinct /\ RanListed /\
OnceARound`: the list has no task twice (the model adds a block only when it is not
listed; the code makes another entry with the same handle) and only tasks in the
list have run; with that a deletion before the index keeps `OnceARound`, whichever
entries move. `IndexInRange` is not an invariant, as the code lets a task be
deleted behind whose place the index already is; what is proved is where that happens:
`OnlyEndDeletions` says that a step which takes the index out of the list
deletes a task when no other of the round is to come, so that the increment at the end of a task, a
new round and an added task never do.

Only model-checked: liveness (`CollectEnds`, `RoundsRepeat`, and the properties
of the other modules that say what happens in the end), which is out of the
prover's reach. Every safety property and every refinement that a run checks is
stated by a theorem.

## What the documents promise and the code does not keep

Each of these is stated by a document or a comment, is refuted by TLC, and is
a definition at the end of its module or one of the checked properties. Each is
reproduced by a
`.cfg` with the constants given here (what is not given is as in the passing runs;
`MaxFailures` = 0, `Modulus` = 3, `Spec` unless said otherwise).

| Property | Constants | What the code does |
|---|---|---|
| `NoLostWakeup` | two threads, `Inspectors = {main}`, `{}` | `thread.c:1194` lowers the fence and signals without the mutex: a thread between its test and its wait misses both |
| `Exclusive` | two threads, `Inspectors = {main}`, `{"nestedInspect"}` | `thread.c:1161`: the end of an inner inspection sets `aux = 0` for the outer one |
| `Exclusive` | two threads, `{main}`, `{"inspectorStarts"}` | `thread.c:2536`: an inspector starts a thread, which runs beside it |
| `Exclusive` | three threads, `{main, t1}`, `{"cancel", "idleCancel"}` | `thread.c:1134`: a cancelled waiter lowers the fence of another inspector |
| `CountExact` | two threads, `{main}`, `{"startFails"}`, `MaxFailures = 1` | `thread.c:2571`: after a failed `pthread_create` the count stays one too high and no inspector gets in again |
| `NoOrphanMutex` | two threads, `{main}`, `{"cancel", "fenceCancel"}` | `thread.h:708`: no cleanup is pushed around the wait of `HB_STACK_LOCK` |
| `FenceHolds` | three threads, `{main, t1}`, `{}` | `thread.c:1194`: the end of one inspection lowers the fence another waiter has raised |
| `FenceOption` | three threads, `{main, t1}`, `{"error", "idleFence"}` | `errorapi.c:867`: save and restore of the option without the mutex |
| `NoEmptyTake` | two threads that do both, `{"timedSubscribe"}`, `MaxNotes = 1` | `thread.c:2148`: a timed subscriber takes any wake-up for a notification |
| `LockSpec` | two lockers, `{"wrap"}`, `Modulus = 4` | `thread.h:603`: `lock_count` is a `USHORT` |
| `LockerAwake` | two lockers, `{"dieHolding"}` | `thread.c:1836`: the lock of a dying thread is freed and signalled without the system mutex |
| `NoOrphanCrit` | two threads that do both, `{"subCancel"}` | `thread.c:2123`: no cleanup is pushed around the wait of `Subscribe` |
| `WaitingCounts` | three threads, `Subscribers = {t1, t2}`, `{"subCancel", "notifyAll"}`, `MaxNotes = 1` | `thread.c:2117`: a cancelled subscriber stays counted |
| `LateSubscription` | two subscribers, `{"timedSubscribe"}`, `MaxNotes = 1` | `thread.c:2131`: a timed `Subscribe` waits although there is an event |
| `LastNotification` | two subscribers, `{}`, `MaxNotes = 2` | `thread.c:2148`: the first event is returned, `doc/thread.txt:697` says the last |
| `SubscriberUnlocks` | two threads that do both, `{"lockedSubscribe"}`, `MaxNotes = 1` | `thread.c:2116`: the PRG mutex is not given back, `doc/thread.txt:635` says it is |
| `AllNotified` | three subscribers, `{"notifyAll"}`, `MaxNotes = 1` | `thread.c:2121`: a late subscriber takes the event of one that waited |
| `TimedLockTakesFree` | two lockers, `{"timedLock"}` | `thread.c:1988`: waits before it looks at the owner |
| `LockFair` | two lockers, `{}`, `FairSpec` | `thread.c:1940`: who unlocks may lock again before who was woken, for ever |
| `ListBalanced`, `SyncExclusive`, `Released` | two threads, both use both classes, `MaxDepth = 3` | `classes.c:4012`: the loop finds the first entry only |
| `SyncExclusive` | `FirstClass`, `Inherited = {1}` | `classes.c:2014`: a class that inherits its SYNC methods has no mutex |
| `SameFlag`, `NoDangling` | three blocks, `Objects = {o1}`, `{"sweepAlloc"}` | `garbage.c:190`: what a destructor allocates during the sweep has the flag that is about to be flipped |
| `CollectReturns` | two blocks, `{o1}`, `{}`, `FairSpec` | `garbage.c:961`: a destructor frees the block at which the scan was to stop |
| `NoDangling` | three blocks, `{o1, o2}`, `{"nestedCollect"}` | `garbage.c:805`: the guard against a collection within a collection is in the build without threads only |
| `NoDangling` | two blocks, `{o1}`, `{"keep"}` | `arrays.c:1390`: the count is reset although the destructor stored Self |
| `LockedStays` | two blocks, `{o1}`, `{"lock"}` | `fastitem.c:223`: a locked array is released by its last item |
| `DestructorSeesItems` | two blocks, `{o1}`, `{}` | `arrays.c:1835`: the sweep has freed the items of an array a later destructor still holds |
| `StopWaits` | `LastThread = 1`, `Callers = {0}`, `{}` | `thread.c:2715`: `StopThread` does not look at what `pthread_join` returns, and returns at once for a thread that has detached itself; `doc/thread.txt:93` says it waits |
| `RightCancelled` | `LastThread = 3`, `Callers = {0, 2}`, `{"reuse"}` | `thread.c:2666`: the id is used after the thread may have gone and its id been given away |
| `NumbersDiffer` | `LastThread = 2`, `Callers = {0}`, `HB_THREAD_MAX_UNIQUE_ID = 2` | `thread.c:294`: numbers begin again at one while their owners run; `doc/thread.txt:236` |
| `Defined` | `LastThread = 1`, `Callers = {0}`, `{"getThreadId"}` | `thread.c:1613`: reads the stack that the terminator has freed meanwhile; `doc/thread.txt:63` |
| `JoinWaits` | `LastThread = 1`, `Callers = {0}`, `{}` | `thread.c:1018`: the terminator clears `pStack`, which `JoinThread` reads without the mutex (`thread.c:2608`), before it has unlinked the stack; `doc/thread.txt:330` says that it waits for the thread to finish |
| `AllReaped` | `LastThread = 2`, `Callers = {0, 1}`, `{"joinCancel"}`, `FairSpec` | `thread.c:2613`: a joiner that is cancelled after the other thread has tried to detach itself leaves that one behind |
| `Intact` | as in the run | `filebuf.c:319`: an entry is cut through a pointer from before `hb_xrealloc`; `doc/en/rdddb.txt:849` |
| `FullOverwrites` | as in the run | `hbgtcore.c:2245`: the key is written behind the last one and the head stays, so that the new key is lost; the comment at `hbgtcore.c:2238` says that it overwrites the last one |
| `RepeatsLeftOut` | as in the run | `hbgtcore.c:2233`: looks at the key that was put last, which may have been lost or read; the comment at `hbgtcore.c:2229` says that repeated moves are not stored, and a move is left out of a buffer that has none |
| `ChangedLocked` | `{"writeError"}` | `dbf1.c:717`: locks are given up when `hb_dbfGoCold` has failed, and the record is written later; `doc/en/rdddb.txt:548` |
| `RoundsGoOn` | as in the run, `IdleFairSpec` | `idle.c:150`: the index is left behind the end of the list, and no round begins again; `doc/en/idle.txt:19` |

Seen on the way, with no property of their own:

* `thread.c:1567`: `GetCurrentThread` in the main thread counts in a record that
  the main thread does not have; its number is 0 on POSIX (`doc/thread.txt:229`
  says 1). `JoinThread` on a thread that has ended raises error 3012
  (`thread.c:2601`); `doc/thread.txt:330` says it returns at once.
* `dbf1.c`: `RLOCK()` of one record gives up all others first, and when
  it is tried again and refused, its own lock too; `FLOCK()` that is refused has
  given up the record locks; `DBRUNLOCK(n)` under `FLOCK()` gives up the lock of
  the file; an append that fails has given up the locks. `fUpdateHeader` is
  reset although the header was not written (`dbf1.c:5475`).
* `hbgtcore.c`: `NEXTKEY()` takes a key that its
  mask leaves out (`doc/en/input.txt:201` says it does not take keys).
* `idle.c`: two tasks with the same block have one handle; a thread that is
  cancelled in a task leaves `s_bIamIdle` set.

## Not modelled

* The Windows build: it has critical sections and its own condition variables
  (`hb_threadCondWait` on semaphores and events), a component for later.
* Of the collector: hashes, code blocks and collectable pointers (they are
  blocks with other cleanup functions), references to an array's items,
  `GC_RECYCLE`, `hb_gcReleaseAll` at the end of the VM, and the condition of
  `hb_clsFinalize` that a destructor is not called from `__CLSINSTSUPER`.
  A block is held at most once by the variables and once by another
  block. C code locks a block once, and not within a destructor.
* Of the thread functions: `IsValidThread`, `IsSameThread` and `ThreadSleep`,
  which change nothing, and the paths of Windows and OS/2. `GetCurrentThread`
  of the main thread (see above).
* Of the DBF drivers: exclusive use, pack and zap, memo and index files with
  their own locks, relations, triggers, encryption, counters of fields, and the
  schemes of lock offsets. Of the files: opening and closing by several threads
  and the lock of the system behind `LockTable`, which is taken after it with no
  lock around both.
* Of the keyboard: the mouse, `SET KEY`, `InkeyLast` and `InkeyExit`, and the
  drivers of single terminals. `SET CANCEL` is on.
* Of idle tasks: two threads in `hb_idleState` at once, `hb_idleShutDown`; and
  the background tasks of `bkgtsks.c`, a list of the same kind with times.
* `BEGIN SEQUENCE`, memory variables, dynamic symbols: on the plan.
* Compiler, preprocessor, macro compiler, code pages, terminals and libraries:
  sequential functions on text, values and formats, where a model would
  repeat the program.

## Plan

1. **Gate** – done, with its abstract specification and proofs.
2. **Mutex object** – done, likewise.
3. **SYNC methods** – done, with proofs.
4. **Collector** – done, with proofs. To do: hashes, code blocks and
   collectable pointers, which are blocks with other cleanup functions.
5. **Threads** – done, with proofs.
6. **Locks of files** – done, with its abstract specification and proofs. To do:
   `SharedFile`, opening, closing and the lock of the system around it.
7. **Shared tables** – done, with the abstract specification and proofs. To do:
   the locks of the index pages (`hb_dbfLockIdxFile`).
8. **Keyboard buffer**, **idle tasks** – done, with proofs. To do:
   `BackgroundTasks`.
9. **`WinCondition`** – the condition variable built from events in the
   Windows build, to implement the abstract condition the other modules use.
10. **`Sequence`** – `BEGIN SEQUENCE`, `Break`, action requests and the
    restoring of the stack and privates.

Runs are kept to one for each question; as modules are added, runs that refute
a promise give way and remain in the table above.
