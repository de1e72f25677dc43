# Selebrow in TLA+

Selebrow hands out browsers (containers or pods) to WebDriver and Playwright
clients over HTTP.  What makes it hard is not the protocol but the custody of
browsers: each one is created by a request, passed from hand to hand (request,
session storage, pool, timer, clean-up, shutdown hook) by goroutines that hold no
common lock, and must be closed exactly once; and the quota unit that pays for it
must come back exactly once.  The page of a session shows the browser's screen in
a VNC viewer that Selebrow serves (its copy of noVNC), where input events, timers
and a byte stream cut anywhere race each other instead of goroutines.  This
directory models both, checks them with TLC and proves the core with TLAPS.

    tlc -config quota.cfg MCLimitQuota.tla
    tlapm AdmissionProofs.tla

## 1. Inventory of the system

| component | source | state | operations | interacts with |
|---|---|---|---|---|
| Session quota | `pkg/quota/limit`, `internal/browser/limited` | counter, FIFO list of channels, limit, queue limit | `Reserve`, `Release`, `ExternalReserve`, `Allocate`, `Close` | wraps the pool manager; called by the session services |
| Browser pool | `internal/browser/pool/pool.go`, `browser.go` | map of idle browsers, shutdown flag, a timer per idle browser | `Checkout`, `Close`/`checkin`, `evictIdle`, `Shutdown` | wraps the backend; the timers call back; the signal handler shuts it down |
| Pool manager | `internal/browser/pool/manager.go` | map of pools, shutdown flag | `Allocate`, `Shutdown` | one pool per protocol, browser and hash of the capabilities |
| Session storage | `internal/services/session` | map of sessions per protocol, shutdown flag; `lastUsed` per session | `Add`, `Get`, `List`, `Delete`, `IsShutdown`, `Shutdown` | shared by both session services and the UI |
| WebDriver sessions | `internal/services/wdsession`, `internal/controllers/wdsession.go` | the clean-up goroutine | create, find, delete, idle clean-up, shutdown | storage, browser manager, driver (HTTP), file server (HTTP) |
| Playwright sessions | `internal/services/pw`, `internal/controllers/pw.go` | a context per session | create, proxy until the connection ends, delete, reset | storage, browser manager, event broker |
| Signal handler | `pkg/signal` | hooks per group | `Start`, `performShutdown` | runs the groups of hooks concurrently, for 5 seconds at most |
| Kubernetes backend | `internal/browser/kubernetes`, `pkg/kubeapi` | waiters by pod name, pods that were ready | `Allocate` (create with retries, wait until ready), `WaitPodReady`, `watchPodEvents`, `Shutdown` | the API server and its watch |
| Docker backend | `internal/browser/docker`, `pkg/docker` | its options; the goroutine and the channel of a pull | start-up with pre-pulling, `Allocate` (create, pull, start, wait for ports), remove | the Docker daemon |
| Event broker | `pkg/event` | subscriptions | `Subscribe`, `Publish`, `ShutDown` | controllers publish |
| Proxying, WebSockets | `internal/controllers/proxy.go`, `internal/common/ws`, `internal/proxy` | none beyond a connection | proxied requests, VNC/DevTools sockets, forward proxy | driver, browser |
| Configuration, catalogue, capabilities, converter | `pkg/config`, `pkg/browsers`, `pkg/capabilities`, `internal/browser/kubernetes/converter.go` | read once at start | pure look-ups and conversions | |
| Start-up, routes, UI pages | `pkg/app`, `cmd`, `internal/router`, `html` | none | wiring and rendering | |
| VNC viewer | `html/templates/vnc.tmpl`, `html/static/js/core` | connection state, receive buffer, handshake and update in progress, queue of drawings, viewport; fingers, buttons, keys and their timers | socket, mouse, touch, key, resize and timer handlers; `disconnect`, `sendCredentials`, property setters | the VNC server of a session, through the WebSocket proxy; the user; the page |

Request path: HTTP handler -> session service -> `LimitedBrowserManager` (quota)
-> `BrowserPoolManager` -> `IdleBrowserPool` -> backend.  The way back is a chain
of wrappers: closing the browser of a session closes the `LimitedBrowser`
(releases the unit), then the `PooledBrowser` (checks in or closes), then the
backend's browser (removes the pod or container).

What is hard, per component, and the properties that make it correct:

* **Quota.** A waiter's timeout races the hand-over of a unit.  Correct: units are
  conserved, the limit holds, the queue is the set of waiters in order, nobody
  waits for a free unit or is overtaken, nobody waits longer than the timeout.
* **Pool.** Check-in reads the pool and acts on it later; a fired timer waits for
  the mutex; `Shutdown` holds the mutex while browsers close.  Correct: one owner
  per browser, closed once, none forgotten, every idle one evicted in the end.
* **WebDriver sessions.** Four parties may end a session, and creation may cross
  a shutdown.  Correct: one of them closes the browser, failing creations close
  theirs, nothing enters the storage after its shutdown, idle sessions go.
* **Signal handler.** Hooks run side by side with requests and with each other,
  under a timeout.  Correct: what ends "gracefully" leaves no browser open.
* **Pool manager.** Look-up and creation of a pool are two critical sections, and
  Shutdown may fall between them.  Correct: one pool per kind of browser, and
  Shutdown reaches all of them.
* **Playwright sessions.** A session is one request with a hijacked connection; a
  reset or a shutdown ends it from outside.  Correct: its browser is closed once,
  its handler always deletes it, and its connection does not outlive it.
* **Kubernetes backend.** A watcher tells waiters over channels while they time
  out, pods are created with retries, and the watch itself breaks.  Correct: no
  channel panics, no waiter or pod is left behind, Allocate returns in time.
* **VNC viewer, input.** A touch becomes a gesture by timers that race the fingers,
  a mouse move is delayed past a click, the button goes up outside of the canvas,
  Windows keeps key releases to itself.  Correct: what the server takes to be
  pressed is what the user holds; nothing stays stuck.
* **VNC viewer, viewport.** Window, desktop, page and drags change it
  independently, and the container is measured a frame later.  Correct: it stays
  inside the framebuffer and ends up as the page asked.
* **VNC viewer, stream.** Messages are cut at any byte and handlers take back what
  they read; images of an update load in their own time while the next one
  arrives; the handshake has states that need no message.  Correct: the viewer
  stays in step with the stream, draws in order, is always owed an update, never
  waits with the server for each other; the connection ends once.
* **Docker backend.**  Create, pull, start and the wait for ports may each fail, or be
  overtaken by the request's deadline.  Correct: what was created is removed on each
  path, the goroutine of a pull is not stuck with a result nobody wants, Allocate
  returns in time.
* **Event broker** (not modelled).  Each of its methods is one section under one mutex,
  and nobody subscribes.
* **WebSocket proxy, forward proxy** (not modelled).  When one copier ends, so does the
  other.
* **Catalogue, capabilities, pod template** (not modelled).  Look-ups fall back to
  defaults in the documented order; the hash of capabilities separates what must
  not share a pool.

## 2. Modules

| module | models | state and actions |
|---|---|---|
| `LimitQuota` | `LimitQuotaAuthorizer`, `LimitedBrowserManager`, `LimitedBrowser` | the counter, the list, the closed channels; one action per critical section under `q.m`, one per branch of a `select` |
| `FifoSemaphore` | what the quota promises | owners, line, units taken from outside; no mutex, no channel |
| `BrowserPool` | one `IdleBrowserPool` and its `PooledBrowser`s | the idle map, a set of armed timers and a count of fired ones, `Shutdown` with the goroutines it starts |
| `BrowserStack` | `LimitedBrowserManager` over `IdleBrowserPool`, as `init.go` stacks them | `BrowserPool` step by step, with a `FifoSemaphore` that admits its users; where a goroutine stands follows from both |
| `PoolManager` | `BrowserPoolManager` | the map of pools; `Allocate` in the three critical sections it consists of |
| `WDSessions` | `LocalSessionStorage`, `WDSessionService`, the handlers of the WebDriver API, the reset, `signal.Handler` | the storage, the place of each request and of the clean-up goroutine, the three hooks, the exit |
| `PWSessions` | `LocalSessionStorage`, `PWSessionService`, `PWController.CreateSession`, the reset, the hooks | as above, with hijacked connections and cancelled contexts instead of a clean-up |
| `SessionStore` | what the storage promises of browsers, for both protocols | who has a browser: its request, the storage, the one who closes it; no lock, no goroutine, no list |
| `KubePods` | `KubernetesBrowserManager`, `PodWatcherImpl`, `Client.Watch` | pods at the API server, the stream of events, waiters, channels, the read lock held while sending |
| `DockerBackend` | `DockerBrowserManager`, `dockerBrowser`, `ImagePull` | the images the daemon has, the container of each request, the goroutine of a pull and its channel; one action per answer of the daemon |
| `Backend` | `detectBackend`, `initBackend` | the backend of the process: one of the two above moves, the other never does |
| `GestureHandler` | `input/gesturehandler.js` | the touches tracked and ignored, the gestures still possible, both timers; an event is what one handler dispatches |
| `KeyEvents`, `Keyboard` | `input/util.js`, `input/keyboard.js` | which code and keysym an event stands for; the keys that are down, the Ctrl of a possible AltGr |
| `RfbInput` | the mouse, wheel, tap and gesture handlers of `rfb.js`, `util/events.js`, `util/cursor.js` | handlers as operators on the viewer's record, with what the server was told |
| `Viewport` | `display.js` (viewport, scale), the resize handlers and setters of `rfb.js` | one record; one action per event |
| `VncInput` | the five above, and a user | fingers, buttons, keys and focus as they really are, next to what the viewer takes them for |
| `RfbConnection`, `RfbHandshake` | connection states, socket events, `_initMsg` and its steps | the handshake as operators; reading is `Short`, `Skip`, `Back` on a wire of parts |
| `RfbDisplay`, `RfbDecoders`, `RfbMessages` | `display.js` (render queue), `decoders/`, `_normalMsg`, `_framebufferUpdate` | the queue of drawings, a rectangle in progress, requests for updates |
| `VncServer` | external: a VNC server | what a server may say next; the messages of a repertoire |
| `VncClient` | the viewer with its socket, its page and a server | arrival of bytes, images, timers; closing from each side |
| `VncConnection` | what the page is promised of a connection | connected at most once, disconnected at most once and after it |
| `AdmissionProofs`, `BrowserStackProofs`, `PWSessionsProofs`, `WDSessionsProofs`, `BackendProofs`, `VncInputProofs`, `VncClientProofs`, `VncHandshakeProofs` | | theorems, section 4 |
| `MC...` | | instances for TLC |

Conventions.  A goroutine is an element of a set and `pc` (in `PoolManager`: `stage`)
says where it stands; a piece of code under one mutex is one action, and what runs
outside of it (an HTTP call, a `select`, the close of a browser) separates actions.  A
mutex that is held for longer, as `Shutdown` holds it while it waits, is a guard
(`Unlocked`, `LockFree`).  Calls to what lies below a component (the wrapped browser
manager, the driver, the API server) succeed or fail nondeterministically, so each
module composes with any implementation of the layer below.  Variables such as
`opened`, `closes` and `lost` only record what happened and no guard of the code reads
them, except that a fresh browser is one that was not `opened`.  An operator
`Action_Something` is a plausible mistake in `Action`; each property of a run has one
that violates it.

How the modules meet: the handle that `WDSessions` and `PWSessions` allocate is a
`LimitedBrowser`, a request of `LimitQuota`; the browser it wraps is a
`PooledBrowser`, a browser of `BrowserPool`; the browser under that is a pod of
`KubePods` or a container of `DockerBackend`.  What one layer needs of the next is
what the next one shows: `Custody` and `BrowserAccounted` above are why `Release` is
called once per unit below (the guard of `CloseRelease`), and why a `PooledBrowser`
is checked in once.  Quota and pool are also put together: `LimitQuota` implements
`FifoSemaphore`, so `BrowserStack` takes that one for the quota, and adds the calls
that `LimitedBrowserManager` makes to each and the order it makes them in.  `Backend`
puts the two backends side by side.

JavaScript runs one handler at a time, so in the viewer's modules a step is a whole
handler with everything it calls.  Handlers that call each other are operators from
a record of the viewer to its next state, and an action applies one.  `VncInput`
and `VncClient` are two views of one `RFB` object: they share only that input is
sent while the connection is up, so `VncInput` keeps of the connection that it ends
(`Disconnect`), and `VncClient` leaves the user out.  A position has one
coordinate in `RfbInput` and two in `Viewport`, where the proportions matter.

## 3. Runs

| run | instance | shows |
|---|---|---|
| `quota` | 4 requests, limit 2, queue 2, 1 external unit; 113k states | `QuotaConserved`, `QueueExact` (the queue is the waiters, nobody waits for a free unit); refinement of `FifoSemaphore`, which implies the limit and that nobody is overtaken; `NotStarved`, `WaitBounded` |
| `stack` | 2 sessions, 1 unit, 1 place in the queue, 2 browsers, maxIdle 1, 2 fired timers per browser; 92k states | `Custody` (one owner, open while it has one, closed once, none lost, an idle one has a timer), `PaidWithinLimit`; `EveryBrowserCloses`, `LineMoves` |
| `pool_max_idle` | the pool alone, 1 fired timer | violation: `MaxIdleRespected` |
| `manager` | 3 goroutines, 2 kinds, 3 pools; symmetric; 4.5k states | `OnePoolPerName`, `ShutdownReachesAll` |
| `wd` | 1 creating request, 1 other request, the clean-up, 2 browsers, all hooks; 461k states | `Custody` (type, one owner, closed once), `NoneLost`, `GracefulExit`; refinement of `SessionStore`, which implies that nothing enters the storage after its shutdown; `IdleReaped` |
| `pw` | 2 connections, 1 reset, 2 browsers, both hooks; 70k states | `BrowserAccounted` (closed once, none lost), `StoredHasHandler`; refinement of `SessionStore`; `ConnectionEnds` |
| `pw_graceful_exit` | 1 connection | violation: `GracefulExit` |
| `pods_safety` | 2 requests, 2 pods, 1 retry, 2 events under way, 1 broken watch; symmetric; 1.3M states | `ChannelsSound` (type, no panic, no waiter left, the watcher never blocks unless the watch broke), `OnlyReadyHandedOut`, `PodsAccounted` |
| `backends` | 2 requests; either 2 images of which they ask for one, port mapping and pre-pulling on or off, or 2 pods, no retry, 1 event under way, no broken watch; 221k states | `ContainersAccounted`; `EveryAllocateReturns`, `PullerEnds` |
| `pods_rewatch` | 1 request, 2 pods, 1 broken watch | violation: `AllocateReturns` |
| `vnc_input` | 3 fingers and 3 touches, or a mouse with 2 buttons, or 9 keys on 3 platforms of which 2 are held, or 4 sizes of the window and 2 of the desktop; symmetric; 402k states | `FingersAccounted`, `ButtonsFollowGesture`, `PointerFaithful`, `KeysFaithful` and `KeysMirrored` (of keys the server holds those the viewer lists, and none after the user let go), `CursorFollowsPointer`, `ViewFits`; `TapHonoured` of every step |
| `vnc_client` | 6 repertoires of messages, 2 parts on the wire, 2 rectangles in an update; 476k states | `InSync`, `Settles`, `NeverStalled`, `NobodyWaitsInVain`, `HandshakeMoves`; refinement of `VncConnection` |

Why the bounds are enough.

* `quota`: with a limit of 2 two releases can cross, with 4 requests the queue can
  fill (2 owners, 2 waiters) and the external unit can push the counter above the
  limit; a new request can try to overtake a waiter.  With a queue of 2 a waiter
  that times out may be removed from ahead of another or from behind it.
* `stack`: the races in the pool are between two sessions, or a session and a timer, or a timer
  and Shutdown; `MaxFired = 2` lets an eviction of an earlier idle period run
  during a later one and collide with its own.  maxIdle 1 makes both sides of the
  test reachable.  `MaxFired` bounds how many fired timers of one browser wait for
  the mutex at a time; a larger number repeats the case.  One unit for two
  sessions makes one of them wait while the browser of the other is used, returned,
  evicted or closed by Shutdown; since the unit comes back first, both can return a
  browser at the same time.
* `wd`: the request and the clean-up run the same `DeleteSession`, so two deleters
  and Shutdown cover the race; two browsers let the clean-up pass over one session
  to reach another, and a second session be created after the first is gone.
* `pw`: the same with two connections and a reset, so that three parties can meet
  at one session while another starts.
* `manager`: three goroutines, so that one that missed the pool meets one that
  creates it and one that finds it.
* `pods_*`: `Pods` bounds the creations, `MaxStream` the events under way,
  `MaxRewatch` the broken watches.  A waiter's channel has room for one value, so
  two notifications of one pod are the interesting number.
* `backends`: a container belongs to one request and containers do not meet; two
  requests meet at an image, which one of them pulls while the other starts from it.
  The pods of this run are there for liveness and leave out what it does not need
  (retries, a longer stream).

* `vnc_input`: a behaviour uses one device.  Three fingers make every gesture and
  leave one to be ignored; a third touch can begin while the rest of a gesture is
  still down, or be the second tap after two fingers.  The two positions are farther apart than every threshold of the
  code, so that a move either counts for all of them or for none.  The keys are one
  of each case of `keyboard.js`: AltGr's Ctrl, a Shift that Windows does not tell
  of, a key without a release, a key without a code, one that changes its keysym
  while it is held; each platform's keyboard (`Layouts`) has those that are special
  there.  The sizes of window and desktop are smaller and larger than
  each other along each axis, and one window is hidden.  `MaxTouches` ends the
  behaviours with touches, and the connection may end at any time.
* `vnc_client`: a server has one of six repertoires so that each message and each
  encoding meets the others it can be confused with (images with what is drawn
  after them, fences and continuous updates with updates, a new size with
  requests).  `Cuts` are the offsets at which some handler tests what is there, so
  each test fails by a byte.  Two parts on the wire let a message be followed by
  another in the same event; two rectangles are an update that stops between them.
  `MaxTurns` bounds the turns of the loop over what has arrived: a turn reads
  something, moves a decoder on, or is the last one, and 20 are more than two parts
  can take (with the loop unbounded TLC finds the same states).

`CHECK_DEADLOCK FALSE` stands where the system stops: the process exits
(`wd`, `pw`), the user has run out of touches or left the page (`vnc_input`), or
the watcher and a waiter really deadlock (`pods_*` with a broken watch: that is the
finding).  Symmetry is used by runs without liveness only.

**Fairness.**  Go runs every runnable goroutine, and `sync.RWMutex` prefers a
waiting writer to new readers, so a goroutine whose next step is possible takes
it: weak fairness of the steps of a goroutine.  Beyond that:

* `quota`: `NotStarved` assumes that sessions end (`BrowsersEnd`), `WaitBounded`
  that timers fire (`TimersFire`); each assumption is part of the property.
* `stack`: sessions end, the wrapped manager returns, timers fire, time passes.
  Nobody needs to call Shutdown or to ask again, and `LineMoves` holds though the
  queue timeout may never fire.
* `wd`: drivers and the file server answer the DELETE.  The code uses a client
  without a timeout there, see the hazards.
* `pw`: a connection ends only when it must: after its context was cancelled, or
  after its browser was removed.
* `backends`: the API server and the daemon answer, and `createTimeout` passes.
  Nothing is assumed about pods, about the watch, about containers and their ports,
  or about a pull, which may take for ever.

* `vnc_client`: the browser runs a timer that is due (`DisconnectTimeout`); the
  server and the network owe nothing.

**What the code gets wrong.**  Three runs end in a violation:

* `pool_max_idle`: `checkin` tests under a read lock that it gives up before
  `pushIdle` takes the lock again, so two check-ins exceed maxIdle.
* `pods_rewatch`: after a broken watch, a pod that was ready is reported again; if
  its waiter has just timed out, `notifyWaiter` blocks on the full channel while
  it holds the read lock that `removeWaiter` waits for.  Both stop for ever, and
  with them every later allocation.
* `pw_graceful_exit`: the handler of a hijacked connection takes its session out
  of the storage and then closes the browser; the server does not wait for it and
  the storage no longer knows it, so the process can exit between the two.

Other gaps of the code are named where a property leaves them out, and in the notes
of the hazards:

* a check-in that crosses `Shutdown` leaves its browser in a pool that was shut
  down (its timer still ends it, unless the process exits first);
* a pod that becomes ready before its waiter is registered is never reported, so
  the allocation runs into its timeout;
* the quota counts sessions, not browsers: the unit comes back before the browser is
  closed or checked in, and an idle browser holds none, so with a limit of one a
  second browser runs next to the first, though the option is documented as a limit
  for simultaneously running browsers (`PaidWithinLimit` says what is bounded);
* an error at the end of the daemon's stream of progress is dropped
  (`pkg/docker/image.go:38`): a failed pull counts as done, so a process that was told
  to pre-pull may serve without its images;
* in port mapping mode a container that has exited has no mapped ports, and is waited
  for until the request's deadline; `removeContainer` has no timeout at all;
* a two-finger timer that has fired keeps its id, and a later tap is dropped for
  it (`TapHonoured`);
* the first of two mouse buttons to go up releases the capture; `set viewOnly`
  mutes the releases of the keys it lets go of; the timer of an undecided AltGr
  presses Control after the focus was lost (`PointerFaithful`, `KeysFaithful`);
* a Tight rectangle of no pixels with a palette leaves the number of its colours in
  the decoder, which takes the next palette for one it has read
  (`decoders/tight.js:151` and `210`); `LayoutAssumption` leaves it out;
* a canvas scaled to less than a pixel maps its edge to a negative position
  (`ViewFits`); ending view-only does not ask for the size that it kept back;
* a blit that waits behind an image draws other bytes of the receive buffer
  (`Settles`); an update without rectangles that meets a pending image is forgotten
  with its request (`NeverStalled`); an empty Tight list with the result in the same
  message waits for more bytes (`HandshakeMoves`).

## 4. Proofs

All theorems hold for every value of the constants that satisfies the named
assumptions in the modules (finite sets of requests, a positive limit, a "no
browser" value that is not a browser, and the like).

* **`AdmissionProofs`**, of the quota: `TypeOK`, `QuotaConserved`, `LimitRespected`,
  `QueueExact`, `NoOvertaking`, and
  `Spec => Fifo!Spec`.  The inductive invariant is the conjunction of the safety
  properties: none is inductive alone.  The counter bounds the owners only if the
  queue is known to hold exactly the waiters, because `Release` hands a unit to
  whatever stands at the head; and the queue is empty below the limit only if the
  counter is exact.  Three lemmas on sequences without duplicates (`RemoveAt`,
  `Append`, `Tail`) carry the queue.  The refinement needs the invariant at one
  point: a request that leaves the queue by its timeout is found there.
  Of the map of pools, which shares no state with the quota: `ManagerTypeOK`,
  `OnePoolPerName`, `ShutdownReachesAll`.  The invariant adds that, while Shutdown
  holds the mutex, what it still has to shut down and what it has shut down are all
  the pools there are.
* **`BrowserStackProofs`**: `TypeOK` and `Custody` of the pool alone, which are
  inductive together (a fired timer of an earlier period is harmless because whatever
  is in the map has no other owner, and the eviction looks the browser up in the map);
  `Custody` under the quota, and `PaidWithinLimit`.  Each step
  of the stack is a step of the pool or leaves the pool alone, so the invariant of the
  pool holds of the stack.  The bound needs one more invariant (`UnitsHeld`): at most
  `Limit` goroutines own a unit, and whoever has the pool start a browser is one of
  them.  The rest is
  counting: a browser that is paid for is held by an owner, different browsers by
  different ones, and an owner that still waits for its browser holds none.
* **`PWSessionsProofs`**: `TypeOK`, `BrowserAccounted`, `StoredHasHandler`.
  The invariant restates custody goroutine by goroutine and adds that Shutdown has
  nothing to close before it begins.  `Spec => Sessions!Spec` as for `WDSessions`.
* **`WDSessionsProofs`**: `Custody` (with its `TypeOK`), `NoneLost`,
  `NothingAfterShutdown`, `GracefulExit`.  Custody is as above, with four kinds of
  code that may end a session and a clean-up that works off a list which may be
  stale.  For the exit the invariant adds what each shutdown hook has brought about
  and nobody undoes (`HooksHold`): the storage is empty and closed, no request is
  running, the clean-up has stopped; so a browser that is still open has no owner
  left, which `Accounted` excludes.  `Spec => Sessions!Spec`, the refinement of
  `SessionStore`: the browser of a goroutine is fresh or ended by where the goroutine
  stands, and a goroutine that moves on takes its browser along because no other one
  has it (`HeldChanges`), which is where the invariant is needed.
* **`BackendProofs`**, of each backend alone and then of the process that has chosen one:
  * Kubernetes: `ChannelsSound` (with its `TypeOK`), `OnlyReadyHandedOut`,
    `PodsAccounted`, for any number of requests, pods, retries, events under way and
    broken watches.  That a closed channel is never sent on needs that a waiter
    registers a channel nobody used before; that one place in it is enough needs that
    a pod is reported as Added before anything else is said of it while no watch was
    broken, so that the watcher remembers whom it notified; that a pod handed out was
    ready needs that what the stream says of a pod is true.
  * Docker: `ContainersAccounted`, which is not inductive: a request that fails
    before it created a container must be known to have none (`NotYet`).  And
    `ResultFits`: the channel of a pull has room for its one result, also when the request
    has gone, so the goroutine never waits there; for that, a request starts one pull and
    a pull that has not ended has sent nothing (`RoomForResult`).
* **`VncInputProofs`**, for any fingers, positions, thresholds, buttons, sizes, keys and
  layouts; a behaviour of the whole module with all its devices and timers.
  * `ViewFits`.  Each operation of the display restores `ViewInv` from a viewport that
    only has the right types: a change of size bounds the size (`ChangeSizeInside`),
    and a change of position needs nothing but that (`ChangePosInside`).  An unchanged
    size is not moved, which is safe because the invariant says that a display that
    does not clip shows everything.  `FitInv` adds which setting was applied last, and
    what is still owed by the frame or the timer that is under way.
  * `FingersAccounted`, `TapHonoured`.  `GestureInv` says which sets of gestures so
    many fingers leave possible and what the two timers may meet; it yields the events
    that a step may dispatch (`EventsFit`): none, the start, the move or the end of the
    one gesture it begins, continues or ends.
  * `ButtonsFollowGesture`, `PointerFaithful`, `CursorFollowsPointer`.  `PointerInv` ties
    the mask of the viewer to the gesture or to the capture, and the server's to it.
    Each handler is described by a lemma of its own (`PressIs`, `MovePlain`, `ScrollIs`
    and so on), and these are composed along the calls and the events of a step.
  * `KeysFaithful`.  It is not inductive: after a release that the browser keeps to
    itself nothing but the list says what is still down.  `KeyInv` says whose the
    entries of `_keyDownList` are (`Owned`): of a key that the user holds and whose
    release will be told, or on Windows of one Shift for the other, or the Ctrl of AltGr;
    and that the server holds nothing that is not listed under its keysym (`Mirror`).
    Wheel and pinch press keys too, but let go of them in the same step (`ZoomOnly`).
    `TypingAssumption` says what is assumed of the browser: press and release of a key
    name one code, unless the press names none, and the keys that Windows never
    releases are no modifiers.
* **`VncClientProofs`**, for any cells of the screen, servers, credentials and places to
  cut: `Settles`, `NobodyWaitsInVain`, and that every step of the viewer is one of
  `VncConnection` or none.
  * A handler is a function of the viewer made of smaller ones.  Three relations say
    what it made of the viewer it was called on, and each lemma takes one of them
    through one more function: it has only read (`Reads`), it may have drawn
    (`Handles`), it is done (`Call`).
  * `Settles` speaks of a viewer at rest and is far from inductive.  `DrawingInv` says
    it of every moment: what is in the queue leads from the canvas to what the server
    drew, whatever is not damaged is shown, and only an image that has not loaded is
    first in the queue.  `Rest` adds that between two updates everything drawn has been
    flipped; with an empty queue the two give `Settles`.
  * `Flushes` (the viewer waits for the display exactly if the display owes it an
    answer, and then the queue is not empty) gives `NobodyWaitsInVain`, since what is
    first in the queue is then an image still to load.
  * `ScreenAssumption` says of the servers that their rectangles lie on the screen.
    `MaxTurns` may have any value: no theorem needs the loop to be finished.
  * The second part of the module counts bytes.  A sequence of parts has a sum, which
    the first part and the rest make up (`SumsExist`, `TotalFirst`): the sums are built
    as functions, so induction over them is induction over a set of numbers.  Of each
    decoder `Unread` says how many bytes it has yet to read of its rectangle, from the
    fields in which it remembers how far it is; `Stands` says that the place in the
    message is the length of the rectangle without these, and `Parses` that what is
    under way is what a server can say from there to where it is (`Speech`).  A decoder
    or handler that took a part of it, or gave back what it could not read, leaves the
    viewer where the rest begins (`Steps`, `Heeds`).
* **`VncHandshakeProofs`**: `InSync`, `HandshakeMoves`, `NeverStalled`, for any
  versions, lists of security types, credentials, messages, rectangles, and places to
  cut.  They are proved together, because a viewer that misread one byte of the
  handshake could be anywhere after it.
  * `WireInv` distinguishes a viewer that connects, one that is connected and one that
    is gone.  In the handshake `Talk` lists who speaks next: for each state of `_initMsg`
    and each step of the authentication, the phases of the server it can meet and what
    may then be under way in either direction.  `Shook` takes that through the handlers
    of the viewer, which read a whole message or none of it, also where one calls the
    next; `TalkMoves` reads `HandshakeMoves` off it.  Where the page is asked for
    credentials nothing can arrive, so one answer is enough (`Asks`).
  * When it is connected, `Parses` is kept by each decoder (`RectSteps`), each message
    (`MessageOutcome`) and each thing a server adds (`SaysAdds`), and it implies that no
    handler reads past the end of what is there: `InSync`.
  * `NeverStalled` needs what each side has promised (`Debts`): that continuous updates
    are announced once, that a server which waits for a fence has its answer or its
    question under way, that the region asked for is the whole screen; and `Awaits`,
    which the end of an update restores by the next request.
  * Two assumptions on the servers: `ServersAssumption`, that one has something to
    offer when it is its turn; and `LayoutAssumption`, that a message or rectangle has as
    many bytes as its fields say, by the layout that the handlers read.  It leaves out what
    the code does not survive or refuses: unknown messages and Tight filters, a fence of
    more than 64 bytes, a clipboard that is provided without text, and the empty palette
    of section 3.  That a `lastRect` comes only where the number of rectangles was left
    open is part of the server (`Continuation`).

Only model-checked:

* liveness, because the prover handles neither fairness nor ENABLED;
* `KeysMirrored`, that a key on the list is down at the server.  It is not true of every
  keyboard: if two physical keys have one keysym, releasing one of them releases
  the other at the server while it stays on the list.  The instance has no such keys;
* of the refinement of `VncConnection` its fairness, that a closing connection ends.

The type invariants `TypeOK` are proved where there are proofs, and
checked with the other properties elsewhere; `LimitRespected` and
`NoOvertaking` are proved, and are implied by the refinement that the run checks.

## 5. Not modelled, and what could follow

Not modelled: the components with status `not_modelled` in `PROJECT.json`.  Some
parts never will be, because they hold no state of their own or are plain I/O:
configuration, start-up, routes, UI pages, the quota page, TLS and HTTP proxying.
Left out of modelled parts: the parsing of Playwright options, port forwarding of
the Kubernetes debug mode, the contents of requests and pods, the DevTools sockets.
Panics that `echo` recovers are not modelled, nor is the `ExternalReserve` of
several processes.

Of the viewer: the image of the cursor, the xvp and clipboard calls of the page, the
tables of key symbols, the contents of zlib streams (all of `pako`), colour depths
other than 24 bits, the growth of the receive buffer, and messages that are
malformed.  The page of Selebrow sets `scaleViewport` and nothing else; the modules
let the page use the other properties of the `RFB` object too, as its interface
allows.

Hazards without a property are listed in `PROJECT.json` with the reason.

What could follow, in this order:

1. `Tunnel`: the WebSocket and the forward proxy: each end is written what the other
   said, and whoever ends takes both connections and the handler down with it.
   What the client sends along with its CONNECT stays in the reader that
   `connect.go:31` drops, and the two copiers share a variable for their error.
2. `BrowserConfig`: catalogue, capabilities (their merge and hash) and the pod
   template as pure operators against reference definitions over bounded inputs.
