# The cryptlib security kernel and certificate store in TLA+

cryptlib keeps every encryption context, certificate, envelope, session, keyset,
device and user in one *object table* and lets nobody touch an object except by
sending it a message through the kernel (`src/kernel/`).  Threads of the
application, threads of cryptlib's own (entropy polling, driver binding,
asynchronous key generation) and the message handlers of other objects all do so
at the same time.  What the kernel promises them (one thread at a time in an object, nobody
left with a handle that now means something else, an object destroyed once and
only when its last user has left) is what this project models, checks and proves, with the services that the kernel
is built from.  A second part is the one place where cryptlib does durable work in several steps: the certificate store of a CA.

## Inventory

| Part | Source | State | Operations | Interacts with |
|---|---|---|---|---|
| Object table and lifecycle | `objects.c`, `kernel.h` | `objectTable[]` of `OBJECT_INFO`, `objectUniqueID`, `objectStateInfo` | `krnlCreateObject`, `destroyObjectData`, `destroyObjects`, handle search | everything; its mutex `objectTable` guards all kernel object state |
| Message dispatch | `sendmsg.c` | message queue, `lockCount`/`lockOwner` of the entry | `krnlSendMessage`, `waitForObject`, `dispatchMessage`, routing, enqueue/dequeue | calls the object's message function with the table unlocked, which sends messages again |
| Internal messages | `int_msg.c` | reference counts, dependent object/device, properties | `incRefCount`, `decRefCount`, `setDependentObject`, `clearDependentObject`, `cloneObject`, `setPropertyAttribute` | sends DESTROY when a count reaches zero, with the table unlocked |
| Pre-/post-dispatch handlers | `msg_acl.c` | flags, usage count, action permissions | signal dependents, make external, update usage count, change state, forward | called by `krnlSendMessage` inside its critical section |
| Direct access | `obj_access.c`, `device/system.c` | lock count and owner | acquire/release, suspend/resume | bypasses dispatch, waits like it |
| Semaphores, mutexes, threads | `sync.c`, `thread.h` | `semaphoreInfo[]`, mutexes | set/clear/wait semaphore, enter/exit mutex, dispatch thread | driver binding and background threads; shutdown |
| Initialisation and shutdown | `init.c`, `cryptlib.c` | `initLevel`, `shutdownLevel` | begin/complete init, begin/complete shutdown | destroys all objects, waits for threads, removes mutexes |
| Secure memory | `sec_mem.c`, `misc/os_spec.c` | list of locked blocks; pages locked by the operating system | `krnlMemalloc`, `krnlMemfree` | object creation and destruction |
| Built-in storage | `storage.c` | fixed pools with use flags | get/release storage | object creation and destruction |
| Access control lists | `attr_acl.c`, `key_acl.c`, `mech_acl.c`, `certmgt_acl.c` | constant tables | look-up | `checkParams`, pre-dispatch |
| CA certificate store | `keyset/ca_*.c`, `dbx_*.c`, `odbc.c`, `session/cmp_svr.c` | the tables `certificates`, `certRequests`, `CRLs`, `certLog` of a database | add a request, issue, complete, drop, reverse, revoke, renew, `caCleanup` | each server session is a user; the database is shared and outlives the program |

The rest of the repository (contexts, certificates, envelopes, protocol engines,
key files, devices, bignums, I/O, tests, bindings, zlib) uses the kernel and is its
environment here.

### What is hard in it

* **Critical sections in the middle of calls.**  The object-table mutex is given up
  to run a message handler, to wait, to destroy a dependent object, and to query
  a dependent certificate.  What was read before is used after.
* **Recursion.**  A handler sends messages, to other objects and to its own, so the lock on
  an object is a count with an owner and calls on one thread nest.
* **Waiting by polling.**  A busy object is waited for in at most `MAX_WAITCOUNT` turns. There
  is no wake-up and no deadlock detection; time-outs resolve cycles and lose messages.
* **Deferred destruction.**  A DESTROY that meets an object that is still being set up is
  recorded and replayed by the message that reports the object as ready.
* **Reuse.**  Handles are reused; unique IDs tell the objects apart.
* **Shutdown at any time**, checked partly without the mutex, while drivers are still being bound and
  threads are still in objects.
* **Unprotected reads.**  The re-entrant mutex looks at its owner, and waits look at the shutdown level, without a lock.
* **Locks given up and taken back.**  The system and user objects suspend a lock that may be nested, from inside a handler.
* **Durable work in several transactions.**  A certificate is issued, confirmed, replaced and revoked in
  separate transactions; any may fail, the program may stop between any two, and a cleanup must make sense of what it finds.

### What makes each part correct

* Object table: an entry is filled once and cleared once; unique IDs of live objects differ;
  a free entry is found if there is one.
* Dispatch: exclusive use, exact lock counts, the right recipient after a wait, no new work
  once the shutdown has begun, no thread waits for ever.
* Internal messages: the last reference destroys; counts equal the references held;
  dependent objects outlive their users; permissions and counts only tighten.
* Direct access: resume restores what suspend gave up; nobody finds a half-released object.
* Semaphores: a completed thread is never waited for; its handle is closed once.
* Init/shutdown: levels move in order, a failed start can be repeated, no mutex is used after its removal.
* Secure memory: the list is whole, and no page is unlocked under a block that still needs it.
* Certificate store: a revoked certificate never comes back, a renewal never leaves its key without a certificate,
  nothing becomes active without its confirmation, what was acknowledged stays done, and a cleanup ends with nothing left half done.

## Modules

| Module | What it is |
|---|---|
| `ObjectKernel` | The object table and the threads in it: the core, and its properties |
| `ObjectKernelInv` | Its inductive invariants, and the refinement mapping to `ObjectLifecycle` |
| `ObjectLifecycle` | Abstract specification: what the kernel promises the users of an object |
| `ObjectKernel_proofs` | Types, exclusive use, no stale call, pinned set-up, the right recipient after a wait, proved |
| `Lifecycle_proofs` | Removal by the only user, the refinement of `ObjectLifecycle`, the shutdown gate, the exact lock count, and the kernel that one thread uses with locks and dependent objects, proved |
| `MCObjectKernel` | Small instances of `ObjectKernel` for TLC |
| `DependentObjects` | Certificates attached to contexts and detached by any number of threads, with the table unlocked half-way (`int_msg.c`) |
| `HandleAllocation` | The search for a free handle and the unique IDs (`objects.c`) |
| `HandleOrder` | The shift register that gives the order of the search |
| `ShutdownSweep` | The three passes of `destroyObjects` over what is left at shutdown |
| `SecureMemory` | The list of secure memory blocks and the locking of their pages |
| `KernelServices_proofs` | The list and its pages, the sweep, the reference counts of dependent objects and the allocation of handles, proved |
| `MCKernelServices` | Small instances of these four components for TLC, side by side |
| `ObjectAccess` | Handlers that suspend their object's lock and take it back, or fail to |
| `ObjectAccess_proofs` | The object is never kept locked, exact lock count, no embrace of object and nonce mutex, proved |
| `RecursiveMutex` | The re-entrant mutex on top of a plain pthreads mutex (`thread.h`) |
| `ReentrantLock` | Abstract specification: what a re-entrant mutex promises |
| `RecursiveMutex_proofs` | Exclusion, nesting and the refinement of `ReentrantLock`, proved |
| `Semaphore` | A one-shot semaphore, its background thread and the waiters (`sync.c`) |
| `Semaphore_proofs` | Exact reference count, one close of the handle, nobody passes early, proved |
| `Startup` | `initCryptlib` and `endCryptlib` with drivers bound in the background; composes `Semaphore` |
| `Startup_proofs` | Everything bound is released, nothing released under the binding, drivers found ready, proved |
| `MCThreads` | Small instances of `RecursiveMutex`, `Semaphore` and `Startup` for TLC, side by side |
| `CertStore`, `MCCertStore` | The CA's certificate store under its server, with failures, crashes and the cleanup; an instance for TLC |
| `CertLifecycle` | Abstract specification: what the store promises about the life of a certificate |
| `CertStore_proofs` | The store's safety properties, the work of the cleanup, the refinement of `CertLifecycle`, proved |

### `ObjectKernel`

The mutex `objectTable` makes the code between a `MUTEX_LOCK` and the next `MUTEX_UNLOCK`
atomic, so each action is one critical section.  `stack[t]` is thread `t`'s C call stack
reduced to the kernel calls that are not in a critical section: a *frame* says where the call
will go on (`at`), on which handle, with which unique ID it was dispatched or began to wait
(`uid`), the message, and a counter (`n`: the turns of a wait, the lock count a handler found, or whether a
dependent object is to gain a reference).

| Place | Code | Left by |
|---|---|---|
| `create` | `krnlCreateObject` between its unlocked check and the mutex | `EnterObject`, `RejectCreate` |
| `init` | creator's set-up code (for instance `createEnvelope`) | `CompleteInit`, with `FailInit` before it on an error |
| `publish` | the create message's post-dispatch handler | `Publish` |
| `call` | `krnlSendMessage` before the mutex | `RejectHandle`, the internal messages, `DispatchDirect`, `RejectNesting`, `BeginWait`, `DispatchQueued` |
| `wait` | `waitForObject`, asleep | `KeepWaiting`, `AbandonWait`, `EndWait` |
| `handler` | the object's message function | `HandlerReturn` (and any messages before it) |
| `predep` | DESTROY pre-dispatch, inside `decRefCount` of the dependent object | `ResumeDestroy` |
| `setdep` | `updateDependentObjectPerms`, table unlocked | `FinishDependent`, `FailDependent` |
| `locked` | code between `LOCKED = TRUE` and `LOCKED = FALSE` | `UnlockObject` |

`Process` is the body of the dequeueing loop of `krnlSendMessage`; the code enqueues a
message and dequeues it again in one critical section, so the queue is empty between
critical sections and needs no variable.  Mapping of state: an entry has the fields
of `OBJECT_INFO` that control the above; `uniqueID = 0` stands for `objectPtr = NULL`
(`CLEAR_TABLE_ENTRY` sets both).  Messages are reduced to what the kernel does with them: `use`
stands for every message that is dispatched to the object's handler.

**Environment.**  The application sends external messages (`AppSends`), handlers, creators and
holders of locks send internal ones (`LibSends`), at any time up to a nesting of `MaxFrames`.  Two
assumptions are made of them.  (1) A creator sends DESTROY to its object at most once before it
reports it ready, as every `create...()` function in the sources does.  (2) Code that runs on behalf
of an object does not drop (or add) references to it or to an object that depends
on it (`Serving`): those belong to its callers.  Without it a handler could destroy the object it works for,
which nothing in the kernel prevents.

**Bounds.**  `MaxUid` (objects ever created: stands for running out of memory), `MaxRefs`
(references per object), `MaxFrames` (nesting at which code still sends messages), `MaxWait` (the code's
`MAX_WAITCOUNT`, 1000), `MaxNest` (the code's `MESSAGE_QUEUE_SIZE / 2`, 8).

### `DependentObjects`

`ObjectKernel` has the attachment of one object to another with fixed pairs; this module lets threads attach any
certificate to any context, either way round, several at once also to the same object, and detach it, while references are given up and handles used again.  `outside` counts the
references that are no object's; `pending[t]` is the message of thread `t` with what it read before the table was unlocked; `attached[t]` are the objects to which `t`
has attached something.  An entry's `state` follows its end: `dying` from the last reference on, `signalled`, or `left` if its DESTROY came to nothing.

| Action | Code |
|---|---|
| `SetDependentObject` | the checks of `setDependentObject` (the slot is empty, no cycle of two) |
| `CheckCapability` | `updateDependentObjectPerms`, table unlocked: what the certificate allows |
| `FinishDependent` | with the table locked again: the unique ID of the object is compared (`SameObject`), the context's permissions narrowed (`UpdateActionPerms`), the slot filled and the reference counted; neither the slot nor the state of the object is looked at again |
| `ClearDependentObject` | `clearDependentObject` up to its `decRefCount`: an error if there is nothing to clear (`ClearNothing`), the slot cleared in the same critical section (`ClearReference`), or the table given up to destroy what lost its last reference (`ClearLastReference`) |
| `ForgetDependent`, `ClearFails` | after that DESTROY: the slot is cleared, or the error returned with the slot as it was |
| `DecRefCount`, `SignalObject`, `RemoveObject`, `GiveUp` | a reference is dropped; the DESTROY behind the last one, which releases the dependent object, signals the object and clears the entry, or times out for good |

Assumed of callers: they hold a reference to what they attach until the message is through (`Promised`; the object that they attach it to may go any time), and only who has attached something
detaches it, once, as `scep_cli.c:1847` does.  Nothing is assumed of several threads that attach to one object: `scep_cli.c:986` attaches to
a private key of the application, which sessions can share, and `cryptapi.c:4419` to a context of the application.  `late` notes that one
of them has stored its object in a slot that was free only when it was checked, or in an object that is signalled; the
properties `RefsBalanced` and `ConstrainedByCert` are about kernels where that has not happened, and disagreements 5 and 7 are how it happens.
In `SignalObject` the slot of a signalled object is cleared in the step that drops the reference, although the code destroys the dependent object in between: nobody has a reference to the object by then.
DESTROY messages that the application sends, and the shutdown's sweep, are in `ObjectKernel` and `ShutdownSweep`.

### `HandleAllocation` and `HandleOrder`

One action per creation and destruction; all of it happens with the table locked.  `findFreeObjectEntry` is the outcome of the loop, with
the test that ends it (`SearchEnds`: the bound on the iterations, a free entry, or the entry that the search began at, in the order of the code); `Path` is the
entry that each iteration looks at.  `AllocationInit` chooses the first handle by the clock.

The order of the search is a parameter (`Steps`): what the search relies on is that the order goes through every handle but 0 and returns
(`GoesRound`).  `HandleOrder` is the order of the code, multiplication by x modulo `LFSRPOLY`.  The instance has 8 entries, 2 system objects and a polynomial
of degree 3, as the code has none so small; and `MCKernelServices` makes TLC compute that each polynomial of `objects.c:77` for the sizes that
`CONFIG_NUM_OBJECTS` allows (64 to 16384), and for 32, goes round, so that the theorems are about the tables of the code.

### `ShutdownSweep`

`Remains` are the handles of the objects that are left, numbers because each pass goes by handle.  `SweepInit` is any graph
of them: envelopes and sessions (`"session"`) that depend on contexts and hold
references of their own, contexts that depend on certificates and devices, any table order, any references of the
application, any of the objects the application refers to busy (`AttachableTo` says what each kind of object may depend on).  `stack` is the recursion of destroy messages (`SendDestroy`): a frame is at `release`
(`SignalDependentObjects`), `signal`, `handler` (`ReleaseHeld`, `SignalDependentDevices`) or `clear` (`DestroyObjectData`).
`DestroySelected` and `NextDepth` are the two loops of `destroyObjects`, `Depth` and `Selected` the tests of
`destroySelectedObjects`.  A message to a busy object is refused at once, because `waitForObject` does not wait in a shutdown.

### `SecureMemory`

A block goes `free`, `locked` (pages locked, not in the list), `listed`, `unlinked` (before its memory is cleared) and back; each
is one action because the rest happens with the mutex `allocation` held.  `insertMemBlock` and `unlinkMemBlock` work on the four links
and check the neighbours as the code does.  `BlockAt[i]` is the block that the walk along `next` comes to after `i` links, `Position` where it comes to a block.  `Unlocked` is the loop of `unlockMemory` for Windows, the system for which cryptlib looks itself for other blocks in the same pages.
The history variable `order` is the list as it should be.

### `ObjectAccess`

One object (the system object, or the default user object) and the messages of each thread to it (`stack`).  A message
`arrive`s, is `held` by its handler, may be `open` (suspended), in `resume`, in the nonce generator (`getnonce`, `seed`,
`retry`, `drawn`) and then `return`s.  The kinds are the handlers that suspend: `random` (`getRandomFunction`), `nonzero` (`getRandomNonzero`, which
passes no `messageExtInfo` on), `nonce` (`getNonce`), `forward` (`controlFunction`), `selftest`, `commit` (the user object's configuration); `plain` is any other, which may send messages in turn,
one at a time and one at most (a bound, like `MaxDepth` and `NO_ENTROPY_FAILURES`, 5 in the code, which counts the reads that are done over again).
`unlocked` is the field by which a handler tells the kernel not to undo its lock (`MESSAGE_FUNCTION_EXTINFO`).  Every `Resume` may
fail instead (`ResumeFails`) while another thread has the object: `AfterFailure` says what the handler then tells the kernel, which is something only for `random` and `nonce`, and
only of its own lock.  The messages around it, whose locks were given up with its own, are `lost` from then on (`Stranded`, history), and `undone`
notes that one of them has returned and taken another thread's lock with it.

### `RecursiveMutex` and `ReentrantLock`

One action is one access to a shared field, as the macros `MUTEX_LOCK` and `MUTEX_UNLOCK` make them: `TryLock`, `CheckOwner`
(the unprotected read), `Lock`, `SetOwner`; `UnlockNested`, `ClearOwner`, `Release`.  Unlike the macro's `int` the count is unbounded; `MaxDepth` bounds the nesting.
`ReentrantLock` knows only how often each thread has the lock; `depth` is mapped to itself.

### `Semaphore`

| Place | Code |
|---|---|
| `creator`: `start`, `created`, `done` | `krnlDispatchThread` before `THREAD_CREATE`, before `setSemaphore`, after it |
| `worker`: `none`, `running`, `cleared`, `exited` | `threadServiceFunction`: not started, in the function, after `clearSemaphore`, gone |
| `waiter`: `idle`, `checked`, `waiting`, `waited`, `leaving` | `krnlWaitSemaphore`: outside, past the first look at the shutdown level, in `THREAD_WAIT`, after it, past the second look |

The blocks under the semaphore mutex are `setSemaphore`, `ClearBlock`, `CountWaiter` and `releaseRefOpt`; `endSemaphores` may come at any time.
`MayFail` lets `THREAD_CREATE` and `THREAD_WAIT` fail.

### `Startup`

`phase` is where the thread in `initCryptlib` or `endCryptlib` is (there is one at a time: the mutex `initialisation` is held
throughout), `initLevel` and `shutdownLevel` are the kernel's, `bound` is what the management functions of keysets, devices
and sessions remember, `live` what really holds resources, `binding` the progress through `asyncInitFunctions` in the background or on the spot.
The semaphore `SEMAPHORE_DRIVERBIND` (`driverBind`, with `bindThread` and `bindWaiter`) is an instance of `Semaphore` whose actions are conjoined with those of the start
(`CreateThread`, `setSemaphore`), of the background thread (`clearSemaphore`, `ExitThread`), of the shutdown (`Waits(Main)`) and of
application threads (`UserWaits`).  Every step of the start may fail (`MayFail`); `MaxLives` bounds how often cryptlib is started.

### `CertStore`

Each request is a process with its own database connection, as each server session is; `Cleaner` is the thread that opens the store.
A transaction (`DBMS_UPDATE_BEGIN` to `COMMIT`) is one step, because the database undoes what is not committed; each step succeeds or
fails, with everything the code does about a failure: another statement instead, an error to the client, or nothing at all.
A certificate is its request; its row has a *form*: `std`, `esc1` (issued, not confirmed) or `esc2` (a renewal whose
original is to be revoked), which in the tables are escapes of its IDs that hide the row from queries.  The database refuses
a row whose key has one of that form (the unique indices of `createDatabase`).

| Actions | Code |
|---|---|
| `CheckRequest`, `InsertRequest` | `caAddCertRequest` with its checks (failed queries count as "not there") |
| `CheckDuplicateAdd`, `IssueCert` | `caIssueCert` |
| `SendResponse`, `ReadConfirmation`, `Acknowledge` | the dialogue of `cmp_svr.c`; each message may be lost, the confirmation may reject |
| `CompleteCert`, `DropCert`, `ReverseCert`, `UndoCert` | `caIssueCertComplete`, `completeCert` and the straight deletes after a failure |
| `FetchOriginal`, `RevokeOriginal`, `DeleteOriginal`, `CompleteRenewal` | `completeCertRenewal`, `revokeCertDirect` |
| `FetchTarget`, `RevokeTarget` | `caRevokeCert` |
| `NextRequest`, `DeleteRequest`, `DeleteRequests` | first loop of `caCleanup`: leftover requests |
| `NextPartial`, `DeletePartials` | second loop: unconfirmed certificates are reversed |
| `NextRenewal` | third loop: renewals are completed |
| `NextRevocation`, `DropRequest`, `DeleteRevocations` | fourth loop: revocation requests are carried out |
| `Crash` | the program stops between any two steps; the next one begins with the cleanup |

`Shared` procedures are run by sessions and by the cleanup; `Return` says where each goes on.  `prev`, `errors` and
`entries` are the loop's `prevCertData`, `errorCount` and `noEntriesProcessed`.  `accepted`, `acknowledged` and
`discarded` are history.

`CertLifecycle` is what a reader of the store needs to know: where each certificate is in its life (`status`), with the conditions under which it
gets on.  `Status` is the refinement mapping: the row that there is of a certificate says where it is (an escaped row that the client has
confirmed is `confirmed`, the second escape `renewing`), without a row the CRL, and the session that asks for it.  That a transaction
touches one certificate, that the unique indices make the guards `Alone` true, and that a restart only ends what was not active, is what the refinement says.

## Runs

| Run | Instance | Result |
|---|---|---|
| `core_safety` | 2 threads, 2 handles, 3 objects, shutdown at any time, no dependent objects | all hold (647 093 states) |
| `core_liveness` | 2 threads, 2 handles, 2 objects, fair, no shutdown | all hold (52 592 states) |
| `core_nested` | 1 thread, nesting 3, locking, one dependent pair, 3 objects | holds (126 954 states) |
| `core_destroy_race` | 2 threads, one dependent pair | `ExclusiveUse` violated |
| `core_lock_steal` | 2 threads, locking | `ExclusiveUse` violated |
| `core_lost_destroy` | 2 threads | `UnreferencedIsDestroyed` violated |
| `threads` | the mutex, the semaphore and the start side by side, see below, fair | all hold (66 708 states) |
| `access` | 2 threads, nesting 3, any wait may time out, fair | all hold (346 363 states) |
| `access_relock` | 2 threads, random data read inside another message | `OwnLockUndone` violated |
| `attach_race` | 2 threads, a context, 2 certificates | `NotOverwritten` violated |
| `services` | four parts of the kernel side by side, see below | all hold (1 455 367 states) |
| `certstore` | 4 requests, 1 certificate at the start, any statement may fail, 1 crash, fair | all hold (763 611 states) |

**`core_safety`** shows that with plain messages the kernel keeps its promises: one thread in an
object (`ExclusiveUse`), no return into a foreign object (`NoStaleCall`), set-up undisturbed (`InitPinned`), one destruction, alone
(`RemovedAlone`), unique IDs compared after a wait (`RightRecipient`), the shutdown gate
(`ShutdownGate`), and that it implements `ObjectLifecycle` (`LifecycleSpec`).  Two handles and three objects are enough for the reuse of a
handle under a waiter and for two threads waiting crosswise; `MaxWait` = 2 lets a wait both end in
time and time out; `MaxNest` = 1 reaches the nesting limit with two nested calls.  The threads and
the handles are symmetric.  **`core_nested`** adds what one thread can
do to itself: nested messages, locks around them and a DESTROY inside a DESTROY leave the lock count exact
(`LockCountExact`); the theorems under `LoneKernel` say so for any number of objects and depth.

**`core_liveness`** shows that signalled objects are removed (`SignalledIsDestroyed`) and busy ones released (`BusyIsReleased`).
Fairness: weak for each thread's kernel steps (the operating system schedules it, and no kernel step stays
disabled by others for ever: waits are bounded polls); strong for the end of every piece of code outside the kernel, at every
depth of the stack: a handler may send any number of messages but ends.  This is what the code relies on: a handler that never returns
blocks its object for ever.  The run leaves the shutdown out because a signalled object may legitimately be
left to the shutdown's sweep then.

**`threads`** is one state space for three parts: the first state picks the part that moves, and the others stay in their
initial state, where fairness asks nothing of them.

*The mutex*, three threads, a nesting of three: the macros implement the abstract re-entrant lock (`LockSpec`), and who wants the lock gets it
(`LockIsGranted`).  Three threads are needed for one to read the owner field while a second gives the mutex up and a third takes
it; a nesting of three for a count that is neither the first nor the last.  Fairness: threads are scheduled; `pthread_mutex_lock` is
strongly fair (no thread is passed over for ever), and the property supposes that critical sections end.

*The semaphore*, three waiters, failing system calls, a shutdown at any time: the reference count is that of the threads inside (`RefCountExact`), the thread handle is not closed under a waiter, nor
twice (`HandleOpenUnderWaiters`), nobody passes before the thread function has ended (`BusyIsSet`), every wait ends (`WaitEnds`).  With three waiters
one may be the last while a second is leaving and a third comes.  Fairness: every
thread, the background thread included, is scheduled and its function ends.  A wait that fails returns early, so failures do not need fairness.

*Start and shutdown*, two application threads, two lives, every step may fail: what was bound is released when cryptlib is down, after a whole life and after a start that failed at any step
(`ReleasedAtEnd`); objects are destroyed and drivers released only with the background thread done
(`NoReleaseDuringBinding`); who has passed the semaphore finds the drivers bound (`DriversReady`, in the first life); a
shutdown ends (`ShutdownEnds`).  Two lives are enough for what the first leaves behind (the shutdown level, the semaphore, threads on their way out of a wait).  Fairness:
the threads inside cryptlib are scheduled; nobody has to start or end it.

**`access`**: each lock on the object has a handler of its owner that will undo it, so that the object is not kept locked for good, whatever fails
(`NotKeptLocked`); the lock count is the number of handlers that hold the lock, all of them the owner's, up to the moment when a handler that could not take the object back
undoes another's (`LockCountExact`); object and nonce mutex are not waited for crosswise (`NoEmbrace`); every message returns
(`MessagesReturn`).  A nesting of three gives an outer message, one that suspends a nested lock, and one inside it.  Any wait may time out, on arrival and
when the object is taken back.  The self-test is left out (disagreement 13), and so are messages that give the object up for good inside one that keeps
it locked (`CalledBare`; "can never be called recursively", `cryptdev.c`).  Fairness: threads are scheduled;
the nonce mutex is granted in turn.  **`access_relock`** shows what may happen after a failed `krnlResumeObject`: disagreement 4, and in the same way 6.

**`services`** is one state space for four parts that do not interact: the first state picks the part that moves, and the others stay in
an initial state of theirs (an empty table, an empty list, nothing left to sweep), so that the states
are the sum of the parts'.  Each property is its component's own.

* *Allocation*, 8 entries: every sequence of creations and destructions in a table with at least one dynamic object.  A creation fails only in a full table, after as
  many iterations as the code's postcondition says (`OverflowExact`); a free handle is not passed over twice for the same other one (`ReusedInTurn`).
* *Sweep*, every graph of 3 objects: each reference is dropped once (`RefCountsExact`), the three passes miss nothing but objects that are busy to the last
  (`NothingMissed`), and no object is taken from under one that is attached to it (`NotUnderDependent`).  Three objects make the longest chain that
  the code expects (certificate, context, device).
* *Memory*, 4 blocks in 3 pages, two across a boundary: the list is the blocks in use in order, both ways (`ListInOrder`), and no page
  is unlocked under another listed block (`SharedPageStaysLocked`).  Every neighbourhood (head, tail, middle, only one) and every way
  to share a page occurs.
* *Dependents*, a context, two certificates, two threads, four objects at three handles: reference counts equal the references held (`RefsBalanced`), and a
  context permits nothing that its certificate does not allow (`ConstrainedByCert`), until an attachment comes too late.  Both threads may attach to the same object, a DESTROY may fail, and one handle
  can be used again between two steps of a message.

**`attach_race`** shows one of the two ways in which an attachment comes too late: disagreement 5; the other is 7.

**`certstore`**: a renewal, a revocation of the same certificate, an issue with confirmation and one without for another key, in four sessions at once.
A revoked certificate never comes back (`RevokedIsGone`); a renewal never leaves its key without a certificate, unless somebody asked for a revocation
or the cleanup could not read the renewal (`KeyKept`); nothing is active without its confirmation (`OnlyConfirmedActive`); what was acknowledged stays
done (`AcknowledgedIsDone`); a cleanup leaves nothing half done if no statement fails, and only renewals after one failure
(`CleanedUp`); a cleanup ends however often statements fail (`CleanupEnds`).  And the store implements `CertLifecycle` (`CertLifecycleSpec`).
Bounds: one crash, at any step of any session (crashes of the cleanup itself are left to the proofs, which allow any number); `MaxErrors` = 2 (5 in the
code) and `MaxEntries` = 4 (500) let a loop end for each of its reasons.  `MaxEntries` is the number of requests
here, and 500 exceeds it in practice (`StoreFits`): with more leftover renewals than that a single cleanup leaves some, so `CleanedUp`
is a property of stores that are not larger (`StoreFits` counts all requests, more than a loop meets).  Two error paths of the code end sooner than in the model, which goes on and
covers them: an early failure of `revokeCertDirect`, and a step inside a loop of the cleanup that finds nothing.  Fairness: the cleanup runs to its end unless the
program stops; sessions need none, a client may simply go away.

### Where code and comments disagree

Five disagreements have a run:

1. `core_destroy_race`.  `msg_acl.c:1249` promises that an object is signalled before its DESTROY is sent
   "in order that any further attempts to access it will fail".  But the handler first
   drops the reference to the dependent object; if that was the last one the table is unlocked while the
   dependent object is destroyed, and the object itself is neither signalled nor marked busy.  Another
   thread can enter it, and the DESTROY is then dispatched beside it.
2. `core_lock_steal`.  `cryptlib.h:1334` calls `CRYPT_IATTRIBUTE_LOCKED` "locked for exclusive
   use".  Being handled inside the kernel, the message never waits: it increments the
   lock count and takes the ownership over from a thread that is inside.
3. `core_lost_destroy`.  `int_msg.c:723`: "if all references are removed then the object is destroyed".  The
   DESTROY waits for the object like any message and times out; nobody repeats it.
4. `access_relock`.  `system.c:212`: "We couldn't re-lock the system object, let the caller know".  Only the innermost message is marked
   as unlocked (and not even that in `getRandomNonzero`, which passes `NULL`).  The messages around it had their locks suspended too; on their return the dispatcher
   undoes the lock of whoever has the system object then, and a third thread can get in.
5. `attach_race`.  `int_msg.c:911`: "There can't already be a dependent object set".  Two threads that attach to one object both find the slot free
   before the table is unlocked; the second overwrites what the first has stored, whose reference nobody drops.

The others are stated as properties of their modules, which fail when TLC checks them with the instance named:

6. `ObjectAccess!ReleasedIsNoticed` (`access.cfg`).  `user_attr.c:213` expects the kernel to "throw an exception" when a commit cannot take the user
   object back.  The dispatcher undoes the lock of the thread that has it, finds the count it had before and throws nothing.
7. `DependentObjects!SignalledIsDisconnected` (`attach_race.cfg`).  `msg_acl.c:1287`: in a signalled object "the dependent object is disconnected from this object".  An attachment
   that was checked before is stored in it all the same, and goes with the entry, with its reference.
8. `Semaphore!HandleReleased` (`threads.cfg`).  `sync.c:638` says that a thread that ends before its semaphore is set is no problem, because the late
   `setSemaphore` is ignored.  The ignored call was to store the thread handle: nobody closes it.
9. `Semaphore!JoinedByLastOnly` (`threads.cfg`).  `sync.c:157`: "only the last thread to use it can safely delete it".  With pthreads `THREAD_CLOSE` is empty and
   `THREAD_WAIT` is `pthread_join`, which every waiter calls: the first to be done releases the thread under the others.
10. `Semaphore!NoLateLock` (`threads.cfg`).  `sync.c:329`: "If we're in a shutdown and the semaphores have been destroyed, don't try and acquire the semaphore mutex".  The level is read
   without protection, and the mutex may go between the test and the lock.
11. `Startup!NoReleaseDuringBinding` with `UseSessions = FALSE` (`threads.cfg` otherwise).  `cryptses.c:1119` says that the shutdown has to wait for the driver
   binding.  It is the session management function that waits; a build without sessions starts the background thread all the same.
12. `Startup!HandleKeptForWaiters` (`threads.cfg`).  `init.c:430` keeps the shutdown level for threads that are still inside cryptlib, but the next `krnlBeginInit` clears it: a
   thread on its way out of a wait of the earlier life releases a reference of the new life's semaphore.
13. `ObjectAccess!NoEmbrace` with `AppSends = {"selftest", "nonce"}` (`access.cfg` otherwise).  `system.c:615` speaks of unlocking the system device "in order to
   avoid deadlock"; `selftestFunction` draws its nonce with the device locked, while the thread that seeds the generator holds the
   nonce mutex and waits for the device.  Only `MAX_WAITCOUNT` ends it, and the generator is then seeded with the time.
14. `ShutdownSweep!NotUnderDevice`.  `objects.c:521`: "we can never delete another object out from under a dependent object", with devices as an
    example.  A device depends on the system device, so it has the depth of a context without a certificate, and the pass goes by handle.
15. `ShutdownSweep!AllDestroyed`.  The postcondition at `objects.c:533` says that all objects have been destroyed; one that another thread is in
    during the last pass has not.
16. `HandleAllocation!ReuseOnlyWhenFull`.  `objects.c:617` says that a handle is reused at once only in a heavily loaded table.  The search goes on from the handle given last: an old object whose
    handle comes next is destroyed, and the next object gets its handle, however empty the table is.
17. `HandleAllocation!DistinctIDs`.  `objects.c:608` relies on unique IDs; after 2^31 creations they start again without a look at those in use.
    Until then they are distinct (`IDsDistinctUntilWrapped`).
18. `SecureMemory!NoPageLeftLocked` with `LockResults <- {TRUE, FALSE}`.  `os_spec.c` says that shared pages "will be unlocked when the other memory block is freed"; not if that
    block could not be locked itself.
19. `SecureMemory!DataInLockedPages`.  A new block's pages are locked before it is in the list (`sec_mem.c:574`); a block that is freed in
    between unlocks those they share.

Further observations from reading the code for the models: memory is unlocked before it is cleared (`sec_mem.c:741`, which the comment there
admits); a self-test beside another one may time out in `krnlResumeObject` and leave a wrong count; a renewal whose original can be
neither revoked nor deleted stays hidden until the next cleanup although the client has been told of an error; a renewal
that the cleanup cannot read is deleted; the check for a PKI user's first certificate is open to the race that
`ca_add.c:440` describes; failed queries count as "not there" in `ca_add.c` and `ca_issue.c`; without the count of iterations the comparison with
`prevCertData` would not end the cleanup's loops.

## Proofs

All theorems are for every value of the constants that satisfies the module's named assumption, and the hypotheses given below.
Each invariant was model-checked on the instances of the runs before it was proved.  Each action has a lemma, with a step
per conjunct that it can disturb.  The prover has no induction over an operator: where an argument is one over the
depth of a stack or the place in a list, it takes a least counterexample, from the well-foundedness of the naturals.

### The object kernel

| Theorem | Statement | Hypothesis |
|---|---|---|
| `TypeCorrect` | `Spec => []TypeOK` | none |
| `WaitersGetTheirObject` | `Spec => RightRecipient` | none |
| `Invariant` | `Spec => []Inv` | `PlainKernel` |
| `OneThreadPerObject` | `Spec => []ExclusiveUse` | `PlainKernel` |
| `ReturnsToItsObject` | `Spec => []NoStaleCall` | `PlainKernel` |
| `CreatorKeepsObject` | `Spec => []InitPinned` | `PlainKernel` |
| `RemovedByItsOnlyUser` | `Spec => RemovedAlone` | `PlainKernel` |
| `LifeInvariant` | `Spec => []LifeInv` | `PlainKernel` |
| `KernelImplementsLifecycle` | `Spec => LifecycleSpec` | `PlainKernel` |
| `OnlyUsersPassTheGate` | `Spec => ShutdownGate` | `PlainKernel` |
| `LockCountIsExact` | `Spec => []LockCountExact` | `PlainKernel` |
| `LoneInvariant` | `Spec => []LoneInv` | `LoneKernel` |
| `LockCountIsExactAlone` | `Spec => []LockCountExact` | `LoneKernel` |
| `ReturnsToItsObjectAlone` | `Spec => []NoStaleCall` | `LoneKernel` |
| `CreatorKeepsObjectAlone` | `Spec => []InitPinned` | `LoneKernel` |
| `RemovedByItsOnlyUserAlone` | `Spec => RemovedAlone` | `LoneKernel` |

`PlainKernel` is a kernel without dependent objects and without `CRYPT_IATTRIBUTE_LOCKED`; with either
`ExclusiveUse` is false, see above.
`LoneKernel` is a kernel with locks and dependent objects that one thread uses and that is not shut down (after the start of a shutdown the code
refuses to unlock, and counts stay up); `Dependencies` is finite, and what an object depends on depends on nothing itself,
because environment assumption (2) keeps code that works for an object off the references to it and to the objects it
depends on, not to those further down.  `core_nested` is an instance.

`TypeOK` is inductive as it stands: it says that every call except a create without an entry is about a handle of the table, and that
the next unique ID is not the value that marks free entries.  `WaitersGetTheirObject` is about any kernel: each of
the ways into a handler compares the unique ID after a wait.

`ExclusiveUse` is not inductive: from two handlers of one thread on one object, with a lock count of one, the first
return would unlock the object under the second.  `Inv` says in addition that a handler's thread owns the object's lock
(`HandlersOwn`), that the handlers of one object are numbered without a gap by the lock counts they found
(`HandlersNest`), and that a positive lock count is accounted for by the owner's innermost handler
(`LocksHeld`), so that the count falls to zero exactly when the last handler leaves; that makers pin
their objects (`MakersPin`) and that a DESTROY never comes from inside the object
(`DestroyersOutside`), so that a destroyed object had one user.
The proof separates two kinds of steps.  *Quiet* steps (`QuietStep`) leave lock counts, owners, unique IDs and handlers
alone: sending, waiting, counting references, rejecting.  Steps *at one handle* (`OnlyAtStep`) enter or leave a handler, fill or
complete an entry; what `Inv` says of other handles carries over, and each action's lemma shows what it says of this one.
`EnterHandlerKeepsInv` and `HandlerReturnKeepsInv` hold the argument proper.  `DestroyedIsIdle` is where environment assumption
(2) is used: a lock count above zero would need a handler of the destroying thread, which `DestroyersOutside` excludes.

`LifeInv` adds what the whole life of an object needs: the next unique ID is new (`FreshIds`), so that the abstract object that is created
was never there; what runs inside a signalled object is its DESTROY (`EndsSignalled`), so that a handler of a dying object ends with its removal; and the
stack has a bound (`DepthBounded`), so that the numbers of handlers are finite sets.  The refinement is proved action by action: each is a step of
`ObjectLifecycle` or leaves the abstract state as it was.  The exact lock count maps the
handlers on the owner's stack to the lock counts they found, one to one; the least count that no handler has
would contradict `HandlersNest`.

`LoneInv` replaces exclusion, which a lone thread does not need and locks would not give, by what each call on the stack relies on to become the innermost
again (`LoneCall`).  A call that has others inside is one that lasts: a set-up, a handler, a lock, or a DESTROY
that waits for the one it has sent to its dependent object.  Its object is in the table, with the unique ID that the call noted
(`KeepsObject`).  The hard part is what the calls inside may release: an object that others can depend on has, as long as it is not signalled, more references
than there are objects being set up further inside that depend on it (`Makers`), because each of these may be destroyed
with its set-up and will then drop the reference it took over.  So the last reference goes only when no call
outside is about the object, a call that ends an object (`IsLast`) has nothing outside about its object, and the lock count of an entry is
the number of calls inside its object, up to the one that clears it.  An object without references is being destroyed (`Destroying`), and a thread goes
deeper than `MaxFrames` for one DESTROY only (`DeepestDestroys`).  The proof has lemmas for a stack and a table that change by one call and one entry
(`PopState`, `ReplaceState`, `PushState`), and a lemma per action that gives them their hypotheses.

### Semaphores, mutexes, start and shutdown

`RecursiveMutex_proofs` (any threads, any `MaxDepth`): `MutexInv` is inductive.  Its core is that the owner field, read without
protection, never names a thread that does not hold the mutex, and names the holder except in the holder's own windows between locking and writing it, and
between clearing it and unlocking; a thread that asks can therefore be wrong neither way about itself.  From it follow `Excludes` (at most one
thread inside), `NeverWaitsForItself`, `CountsNesting` and, step by step, `ImplementsLock`: the refinement of `ReentrantLock`.

`Semaphore_proofs` (any finite set of waiters): `SemaphoreInv` is inductive.  It says how the state of the semaphore follows its creator and
its thread, and that a positive reference count is that of the threads inside; a shutdown lets threads skip the release, so that afterwards the
count is only an upper bound.  `CountsWaiters`, `ClosedByTheLast` and `NobodyPasses` are conjuncts of it; `UsedOnce` is
an action property that needs the `set` state to have its creator behind it.  The cardinality lemmas (`OneIn`, `OneOut`, `SameInside`) carry the counting.

`Startup_proofs` (any application threads, any number of lives, any step failing) proves `StartupCorrect`, that `StartupInv` is
inductive, and from it `ReleasedAtEndAlways`, `NoReleaseDuringBindingAlways` and `DriversReadyAlways`.  The hypothesis is
`UseSessions`: the session management function is the only one that waits for the binding (disagreement 11).  `StartupInv` follows
the phase: the background thread runs only between its start and the wait for its end, with the semaphore set from the moment that
the start goes on (`WorkerAwaited`); a binding that nobody works on any more is complete or abandoned (`BindingEnds`); what holds
resources is recorded as bound (`LiveRecorded`), across failed starts and lives.  `DriversReady` is about the first life
only (`FirstLife`), because of disagreement 12.

### Suspended locks

`ObjectAccess_proofs` (any threads, any nesting, any wait timing out) proves

| Theorem | Statement | Hypothesis |
|---|---|---|
| `AccessCorrect` | `Spec => []AccessInv` | none |
| `NotKeptLockedAlways` | `Spec => []NotKeptLocked` | none |
| `LockCountExactAlways` | `Spec => []LockCountExact` | `CalledBare` |
| `NoEmbraceAlways` | `Spec => []NoEmbrace` | no self-test (disagreement 13) |

`CalledBare` says what `cryptdev.c` says: the messages that give the object up for good (`forward`, `selftest`) are not sent by a handler that keeps it
locked.  `LockCountExact` speaks of what comes before the first lock that is undone for another thread (disagreements 4 and 6); `NotKeptLocked` and `NoEmbrace` of what comes after it, too.

Neither lock count property is inductive: a handler that resumes restores the count that it noted, so that count must have been right and
must still be.  `FramesFit` says that what a suspended handler has noted is what it and the messages around it, from the last one that
suspended, hold, and no more than that once a lock has been undone; nested messages that come and go between leave it so.  A handler that has lost its lock has none around it,
because the messages around it have lost theirs with it.  The proof splits a stack at its last
suspended message (`LastSuspended`) and counts the handlers above it.

### Secure memory, the sweep and dependent objects

`KernelServices_proofs` has four parts.

*Secure memory* (any blocks in any pages): `MemoryCorrect`, `ListAlwaysInOrder`, `SharedPagesStayLocked`.  `MemoryInv` adds to
`ListInOrder` that no block is listed twice and that a block which is about to be listed points nowhere; the tests of `unlinkMemBlock` on the neighbours then pass,
and removing a block from the middle, an end, or as the only one leaves the order of the others.  For the pages, the
walk along the links (`BlockAt`) is shown to be the list: it is defined by recursion over the naturals, and its least departure from
`order` would contradict `ListInOrder`; the list is no longer than there are blocks, so the walk comes by every one.

*The sweep* (any number of objects, however attached, referred to and busy): `SweepCorrect`, `RefCountsAlwaysExact`, `NeverUnderDependent`,
`ThreePassesSuffice`.  `SweepInv` says that each destroy message is about an object of its own that is in the table, and has cleared what it has passed
(`FramesSound`), that reference counts are exact, and what each pass leaves behind.  The point is that a pass may destroy out of turn: dropping the last
reference destroys at any depth.  Devices are left alone in the first pass (`DevicesStay`), because the last reference to one
is not dropped while an object of the table counts on it; so what the first pass has been through has nothing attached (`DependentsFirst`); and what the last has been through is
gone or was busy (`LastPass`).  There is no hypothesis but that the handles are a finite set of numbers.

*Dependent objects* (any contexts, certificates, threads): `DependentsCorrect` (`Spec => []OnTime`), `RefsBalancedAlways`, `ConstrainedByCertAlways`.  `OnTime` is the invariant
`DependentsInv`, up to the first attachment that comes too late (disagreements 5 and 7); any number of attachments may be under way at once.  `DependentsInv` says what holds
while the table is unlocked in the middle of a message: the references that callers have promised exist (`PromisesKept`), hence what is being attached is neither destroyed nor its handle given to
another; one thread has attached what hangs in a slot (`Attachers`), hence one detaches it; what a slot stands for exists until its clearing is through, also when
the DESTROY has failed and the slot keeps it (`Ends`, `DependentsExist`); unique IDs are used once; and a certificate's answer is still what the
certificate says (`AnswersCurrent`), because a certificate's own permissions do not change while it lives.  The counting moves one reference between `outside` and a slot.

*Allocation* (a table of any size, any number of system objects, any order that goes round): `AllocationCorrect`, `OverflowAlwaysExact`,
`AlwaysReusedInTurn`, `IDsDistinctUntilWrapped`.  The hypothesis `GoesRound` is what TLC computes for each polynomial of the code.  `Path` is
defined by recursion over the naturals; the least place at which it left the round would contradict its definition (`PathFollowsTurn`).  As many places as
there are handles, and every handle among them, make each handle come once (`TurnIsExact`), hence the search ends with the first free handle or where it began after
`MAX_NO_OBJECTS - 2` iterations (`SearchFinds`).  `GivenAreBehind` is what makes reuse in turn inductive: the handles given since the watched one was
freed lie behind it on the path from the handle given last.  `IDsDistinctUntilWrapped` says `[]NotWrapped => []DistinctIDs`: of unique IDs that have started again
it says nothing, as the code does not.

### The certificate store

`CertStore_proofs` (any requests, keys, users and originals, any number of failures and crashes, any `MaxErrors` and `MaxEntries`):

| Theorem | Statement |
|---|---|
| `StoreCorrect` | `Spec => []StoreInv` |
| `RevokedIsGoneAlways` | `Spec => []RevokedIsGone` |
| `KeyKeptAlways` | `Spec => []KeyKept` |
| `OnlyConfirmedActiveAlways` | `Spec => []OnlyConfirmedActive` |
| `AnswersCorrect` | `Spec => []AnswerInv` |
| `LogAgreesAlways` | `Spec => []LogAgrees` |
| `AcknowledgedIsDoneAlways` | `Spec => []AcknowledgedIsDone` |
| `CleanupCorrect` | `Spec => []CleanupInv`, if `StoreFits` |
| `CleanedUpAlways` | `Spec => CleanedUp`, if `StoreFits` |
| `ConfirmedIsIssued` | `Spec => []FreshIsUnconfirmed` |
| `StoreImplementsLifecycle` | `Spec => CertLifecycleSpec` |

The three properties of the tables are not inductive.  `StoreInv` adds what the code relies on between two
transactions: the cleanup is alone (`CleanupAlone`), so that the rows it works on are not taken away under it; the renewal that a process completes is still there, and what
it is about to revoke has the same key (`RenewalAtHand`), so that revoking it leaves a certificate with that key; nothing of a certificate is in the
tables before it is issued (`NotYetThere`); a certificate has one form (`OneForm`), so that what goes to the CRL has no second row; and a completion is
reached only with a confirmation (`ConfirmedFirst`).  `AnswerInv` is inductive together with `StoreInv`: nothing is logged of a certificate before
it is issued (`FreshIsUnlogged`), a completed certificate is not partial any more (`CompletedIsWhole`), hence the cleanup
does not reverse it, and what is about to be acknowledged is done (`AnsweredIsDone`).  Each action has a lemma, with a step per conjunct that it
touches; the table lemmas at the top (`Gone`, ...) say what a deletion, an insertion or a change of form does to the invariants.

`CleanedUp` needs to know why each loop of the cleanup ends.  `CleanupInv` says that the row which an iteration is about is there (`RowAtHand`), and so is a
renewal's original until its key is free; that an iteration in which nothing fails takes its row away, so that the same row does not come
twice, and that the iterations left suffice for the rows left (`LoopOnCourse`, a sum of a counter and a cardinality); hence a loop ends early only after
a failure, and what it leaves is nothing or the consequence of one failure for renewals and of two for the rest (`LoopsBehind`).  That the key of a renewal is free once its original is gone
rests on one active certificate for each key (`OneActive`), which the database's unique indices keep and `StoreConstants` supposes of the original rows.
The hypothesis `StoreFits` says that there are no more requests than `MaxEntries`: with more renewals to complete than that a single cleanup leaves some.

The refinement of `CertLifecycle` rests on `StoreInv` and on `FreshIsUnconfirmed`.  Each transaction that succeeds is shown to move one certificate (`OneMoves`) and to
leave the rows of the others alone (`OneRowChanges`); `OneForm` and `RevokedIsGone` say where the certificate was and where it comes to, `IndexKeepsAlone` that the
index is the guard, `RenewalAtHand` that an active certificate only makes room for a renewal that is there, and `RevocationAtHand` that
what is revoked was asked for.  Everything else, a crash and the straight deletes of the cleanup included, ends requests and drops incomplete certificates (`Abandons`).

### Only model-checked

Every invariant and every action property of the passing runs is stated by a theorem.  Left to TLC are

* all liveness (`SignalledIsDestroyed`, `BusyIsReleased`, `LockIsGranted`, `WaitEnds`, `ShutdownEnds`, `MessagesReturn`, `CleanupEnds`), which needs fairness and `ENABLED`, out of the prover's reach;
* that the polynomials of the code go round (`GoesRound`), a computation for each size, with `Bitwise` and a recursive operator, which the prover cannot expand.

Of a kernel with several threads and with locks or dependent objects only `WaitersGetTheirObject` and the types are proved: `ExclusiveUse` is false there, see above; the other theorems
suppose one thread (`LoneKernel`) or neither locks nor dependent objects (`PlainKernel`).

## Plan

Done: 1. the object kernel with its abstract specification; 2. semaphores, mutexes, start and shutdown; 3. suspension of locks; 4. handle allocation, the
sweep, secure memory, dependent objects; 5. the CA's certificate store with its abstract specification; and the proofs of 1 to 5 listed above.

Could follow:

1. The numeric object properties (usage and forward counts, permissions as a ratchet) with the checks before and after a wait (`sendmsg.c:2232`).
2. `cloneObject`; PKI users and expiry in `CertStore`.

## Not modelled

* *Access control lists* are tables with a linear look-up: their content is data, and nothing in them happens in an order.
* *Self-tests, sanity checks, checksums and canaries* guard against faults of the machine and of the code itself, which the models exclude.
* *Built-in storage*: each operation is one critical section of a few lines.
* *The message queue's buffer*: messages are queued and taken out again in one critical section.
* *Random polling, sockets, key files, LDAP, HTTP*: external input and output.
* *Cryptographic code* (`crypt/`, `bn/`, `context/`, `mechs/`), *encodings* (`enc_dec/`, `cert/`, `envelope/`): sequential computations on data, without a state
  that several actors share; a bounded model of their control flow would say nothing that a test does not.
* *Protocol engines* (`session/` except the CMP server's dialogue): each is a state machine of its own whose correctness is that of a cryptographic protocol; SCEP and PnP PKI servers use the same store procedures.
* *Bindings, tools, tests, zlib*: interfaces, test code, vendored code.

The modules cover about seven thousand lines of the half million in the repository, nearly all of it in `src/kernel/` and `src/keyset/`: the part where steps of several actors, failures and
restarts meet.
