----------------------------- MODULE SerialServer -----------------------------
(***************************************************************************)
(* libsel4serialserver: a thread that owns the serial port and prints for  *)
(* its clients (server.c, clientapi.c, parentapi.c).  The parent spawns    *)
(* the server and hands out badged copies of its endpoint; a badge is an   *)
(* index into the server's registry.  A client connects by passing the     *)
(* frame of a window, which the server maps; it then asks the server to    *)
(* print what it has put there, disconnects, or kills the server.          *)
(*                                                                         *)
(* A window is named by the client whose memory it is.  The server runs    *)
(* one request at a time; requests queue at the endpoint.                  *)
(***************************************************************************)
EXTENDS Integers, Sequences, FiniteSets, Functions

CONSTANTS
  Clients,
  Slots,        \* CSpace slots the server may allocate
  MaxEntries,   \* bound on the registry's length
  AskPages,     \* window sizes, in pages, that clients ask for
  NoWindow,     \* the window of an entry whose size is 0
  Junk          \* the window in an entry that was never written

ASSUME SerialServerConfig ==
  /\ IsFiniteSet(Clients) /\ IsFiniteSet(Slots)
  /\ MaxEntries \in Nat \ {0}
  /\ AskPages \subseteq Nat \ {0}
  /\ {NoWindow, Junk} \cap Clients = {} /\ NoWindow # Junk

VARIABLES
  parent,      \* the parent's progress through spawn_thread()
  server,      \* the server's
  registry,    \* entries [badge, shmem]: a badge value of 0 marks it unused
  max_pages,   \* shmem_max_size
  mapped,      \* windows mapped in the server's VSpace
  slots,       \* "free", "used", "full": free but holding a cap, or "lost"
  recv_full,   \* whether the receive slot holds a cap
  ep,          \* calls queued at the server's endpoint
  conn,        \* per client, the state of its connection
  badge,       \* per client, the badge of the endpoint it was last given
  output,      \* the last windows touched: [by, windows, there]
  orderly      \* clients use no connection they have closed; never changes

vars == <<parent, server, registry, max_pages, mapped, slots, recv_full, ep, conn, badge, output>>

ServerState == <<registry, mapped, slots, recv_full>>
ParentState == <<parent, max_pages, badge>>

Nothing == [by |-> NoWindow, windows |-> {}, there |-> {}]

Init ==
  /\ parent = "new"
  /\ server = "none"
  /\ registry = <<>>
  /\ max_pages = 0
  /\ mapped = {}
  /\ slots = [s \in Slots |-> "free"]
  /\ recv_full = FALSE
  /\ ep = <<>>
  /\ conn = [c \in Clients |-> "none"]
  /\ badge = [c \in Clients |-> 0]
  /\ output = Nothing
  /\ orderly \in BOOLEAN

-----------------------------------------------------------------------------
(* The registry                                                            *)

(* serial_server_registry_get_entry_by_badge() finds an entry *)
Allocated(b) == b \in DOMAIN registry /\ registry[b].badge # 0

Unused == {i \in DOMAIN registry : registry[i].badge = 0}

(* What realloc() leaves in a new entry: any bytes. *)
Fresh(i, junk) == [badge |-> i, shmem |-> junk]

(* serial_server_badge_value_alloc(): the first unused entry as it was left,  *)
(* or a new one.                                                            *)
BadgeAlloc(b, junk) ==
  /\ b = IF Unused # {} THEN CHOOSE i \in Unused : \A j \in Unused : i <= j ELSE Len(registry) + 1
  /\ registry' = IF Unused # {}
                   THEN [registry EXCEPT ![b].badge = b]
                   ELSE Append(registry, Fresh(b, junk))

-----------------------------------------------------------------------------
(* The parent                                                              *)

(* serial_server_parent_spawn_thread(), up to the call to the new thread *)
ParentSpawns(junk) ==
  /\ parent = "new"
  /\ BadgeAlloc(1, junk)
  /\ parent' = "syncing"
  /\ server' = "binding"
  /\ UNCHANGED <<max_pages, mapped, slots, recv_full, ep, conn, badge, output>>

(* The server binds to the serial port, or cannot and is suspended. *)
ServerBinds ==
  /\ server = "binding"
  /\ \/ server' = "serving" /\ parent' = "synced"
     \/ server' = "stopped" /\ parent' = "refused"
  /\ UNCHANGED <<ServerState, max_pages, ep, conn, badge, output>>

(* The rest of spawn_thread(). *)
ParentReady ==
  /\ parent \in {"synced", "refused"}
  /\ IF parent = "synced"
       THEN parent' = "up" /\ max_pages' = 1 /\ UNCHANGED registry
       ELSE parent' = "down" /\ registry' = [registry EXCEPT ![1].badge = 0] /\ UNCHANGED max_pages
  /\ UNCHANGED <<server, mapped, slots, recv_full, ep, conn, badge, output>>

(* serial_server_parent_vka_mint_endpoint() and its two variants *)
Mint(c, junk) ==
  /\ parent = "up"
  /\ conn[c] \in {"none", "closed"}
  /\ Unused # {} \/ Len(registry) < MaxEntries
  /\ \E b \in 1 .. MaxEntries : BadgeAlloc(b, junk) /\ badge' = [badge EXCEPT ![c] = b]
  /\ conn' = [conn EXCEPT ![c] = "minted"]
  /\ UNCHANGED <<parent, server, max_pages, mapped, slots, recv_full, ep, output>>

-----------------------------------------------------------------------------
(* Clients                                                                 *)

Sends(c, func, arg) ==
  /\ ep' = Append(ep, [client |-> c, badge |-> badge[c], func |-> func, arg |-> arg, back |-> conn[c]])
  /\ conn' = [conn EXCEPT ![c] = "waiting"]
  /\ UNCHANGED <<server, ServerState, ParentState, output>>

Connected(c) == conn[c] = "connected" \/ (~orderly /\ conn[c] = "closed")

(* serial_server_client_connect() *)
ClientConnects(c) ==
  /\ conn[c] = "minted" \/ (~orderly /\ conn[c] = "closed")
  /\ \E pages \in AskPages : Sends(c, "connect", pages)

(* serial_server_printf(), _write() and _flush(), which send nothing that is *)
(* longer than the window, here of length 1; only printf() sends length 0.   *)
ClientWrites(c) ==
  /\ Connected(c)
  /\ \E len \in {0, 1} : Sends(c, "write", len)

(* serial_server_disconnect() *)
ClientDisconnects(c) ==
  /\ Connected(c)
  /\ Sends(c, "disconnect", 0)

(* serial_server_kill() *)
ClientKills(c) ==
  /\ Connected(c)
  /\ Sends(c, "kill", 0)

-----------------------------------------------------------------------------
(* The server: serial_server_main() receives a request and answers it      *)

Request == Head(ep)

Serves(func) ==
  /\ server = "serving"
  /\ ep # <<>>
  /\ Request.func = func
  /\ ep' = Tail(ep)
  /\ UNCHANGED ParentState

Replies(state) == conn' = [conn EXCEPT ![Request.client] = state]

(* A request other than connect, from a badge that is not in the registry,   *)
(* is dropped, and its sender is not answered.                              *)
ServerIgnores ==
  /\ server = "serving"
  /\ ep # <<>>
  /\ Request.func # "connect"
  /\ ~Allocated(Request.badge)
  /\ ep' = Tail(ep)
  /\ UNCHANGED <<server, ServerState, ParentState, conn, output>>

(* The kernel puts a frame cap in the receive slot, if that is empty. *)
ExtraCaps == IF recv_full THEN 0 ELSE 1

Acceptable ==
  /\ Allocated(Request.badge)
  /\ Request.arg <= max_pages
  /\ ExtraCaps = Request.arg

(* serial_server_func_connect(), a request it does not accept, or has no     *)
(* memory or no slot for (which may always be so): the cap stays where it   *)
(* was received                                                             *)
ConnectRefused ==
  /\ Serves("connect")
  /\ recv_full' = TRUE
  /\ Replies(Request.back)
  /\ UNCHANGED <<server, registry, mapped, slots, output>>

(* ...the slot it is given holds a cap already *)
ConnectMoveFails(s) ==
  /\ Serves("connect")
  /\ Acceptable
  /\ slots[s] = "full"
  /\ slots' = [slots EXCEPT ![s] = "lost"]
  /\ recv_full' = TRUE
  /\ Replies(Request.back)
  /\ UNCHANGED <<server, registry, mapped, output>>

(* ...the window cannot be mapped: the slot is freed, with its cap *)
ConnectMapFails(s) ==
  /\ Serves("connect")
  /\ Acceptable
  /\ slots[s] = "free"
  /\ slots' = [slots EXCEPT ![s] = "full"]
  /\ recv_full' = FALSE
  /\ Replies(Request.back)
  /\ UNCHANGED <<server, registry, mapped, output>>

(* serial_server_registry_insert() *)
Insert(b, c) == [registry EXCEPT ![b] = [badge |-> b, shmem |-> c]]

(* ...and success *)
ConnectAccepted(s) ==
  /\ Serves("connect")
  /\ Acceptable
  /\ slots[s] = "free"
  /\ slots' = [slots EXCEPT ![s] = "used"]
  /\ recv_full' = FALSE
  /\ registry' = Insert(Request.badge, Request.client)
  /\ mapped' = mapped \cup {Request.client}
  /\ Replies("connected")
  /\ UNCHANGED <<server, output>>

Entry == registry[Request.badge]

Touches(windows) == output' = [by |-> Request.client, windows |-> windows, there |-> windows \cap mapped]

SizeOf(window) == IF window = NoWindow THEN 0 ELSE 1

(* Mutant: what is printed is the window of the first entry. *)
ServerWritesFirst ==
  /\ Serves("write")
  /\ Allocated(Request.badge)
  /\ Touches({registry[1].shmem})
  /\ Replies(Request.back)
  /\ UNCHANGED <<server, ServerState>>

(* Mutant: a window too small for the text is not answered about. *)
ServerWritesSilent ==
  /\ Serves("write")
  /\ Allocated(Request.badge)
  /\ IF Request.arg < SizeOf(Entry.shmem)
       THEN UNCHANGED <<conn, output>>
       ELSE Touches({Entry.shmem}) /\ Replies(Request.back)
  /\ UNCHANGED <<server, ServerState>>

(* serial_server_func_write() *)
ServerWrites ==
  /\ Serves("write")
  /\ Allocated(Request.badge)
  /\ IF Request.arg > SizeOf(Entry.shmem)
       THEN UNCHANGED output
       ELSE Touches({Entry.shmem})
  /\ Replies(Request.back)
  /\ UNCHANGED <<server, ServerState>>

(* Unmapping frees a slot per window. *)
SlotsFreed(windows) ==
  \E gone \in SUBSET {s \in Slots : slots[s] = "used"} :
    /\ Cardinality(gone) = Cardinality(windows)
    /\ slots' = [s \in Slots |-> IF s \in gone THEN "free" ELSE slots[s]]

(* Mutant: the window stays mapped. *)
ServerDisconnectsKeepsWindow ==
  /\ Serves("disconnect")
  /\ Allocated(Request.badge)
  /\ Touches({Entry.shmem})
  /\ registry' = [registry EXCEPT ![Request.badge].badge = 0]
  /\ Replies("closed")
  /\ UNCHANGED <<server, mapped, slots, recv_full>>

(* serial_server_func_disconnect(): the entry keeps its stale window *)
ServerDisconnects ==
  /\ Serves("disconnect")
  /\ Allocated(Request.badge)
  /\ Touches({Entry.shmem})
  /\ mapped' = mapped \ {Entry.shmem}
  /\ SlotsFreed({Entry.shmem} \cap mapped)
  /\ registry' = [registry EXCEPT ![Request.badge].badge = 0]
  /\ Replies("closed")
  /\ UNCHANGED <<server, recv_full>>

(* A kill is answered first... *)
ServerKilled ==
  /\ Serves("kill")
  /\ Allocated(Request.badge)
  /\ Replies(Request.back)
  /\ server' = "killed"
  /\ UNCHANGED <<ServerState, output>>

(* ...then serial_server_func_kill() disconnects every entry that has a size *)
TornDown == {i \in DOMAIN registry : registry[i].badge # 0 /\ SizeOf(registry[i].shmem) # 0}

ServerTearsDown ==
  /\ server = "killed"
  /\ server' = "stopped"
  /\ LET windows == {registry[i].shmem : i \in TornDown} IN
     /\ output' = [by |-> NoWindow, windows |-> windows, there |-> windows \cap mapped]
     /\ mapped' = mapped \ windows
     /\ SlotsFreed(windows \cap mapped)
  /\ registry' = [i \in DOMAIN registry |->
                    IF i \in TornDown THEN [registry[i] EXCEPT !.badge = 0] ELSE registry[i]]
  /\ UNCHANGED <<recv_full, ep, conn, ParentState>>

-----------------------------------------------------------------------------
ServerStep ==
  \/ ServerBinds \/ ServerIgnores
  \/ ConnectRefused
  \/ \E s \in Slots : ConnectMoveFails(s) \/ ConnectMapFails(s) \/ ConnectAccepted(s)
  \/ ServerWrites \/ ServerDisconnects \/ ServerKilled \/ ServerTearsDown

Next ==
  \/ \E junk \in {NoWindow, Junk} : ParentSpawns(junk) \/ \E c \in Clients : Mint(c, junk)
  \/ ParentReady
  \/ \E c \in Clients :
       ClientConnects(c) \/ ClientWrites(c) \/ ClientDisconnects(c) \/ ClientKills(c)
  \/ ServerStep

Spec == Init /\ [][Next /\ UNCHANGED orderly]_<<vars, orderly>>

(* The server thread is scheduled. *)
FairSpec == Spec /\ WF_vars(ServerStep)

-----------------------------------------------------------------------------
(* Properties.                                                             *)

Entries == [badge : Nat, shmem : Clients \cup {NoWindow, Junk}]

ConnStates == {"none", "minted", "waiting", "connected", "closed"}

Requests ==
  [client : Clients, badge : Nat, func : {"connect", "write", "disconnect", "kill"}, arg : Nat,
   back : ConnStates]

(* The type invariant; an entry's badge value is its place, or 0. *)
TypeOK ==
  /\ parent \in {"new", "syncing", "synced", "refused", "up", "down"}
  /\ server \in {"none", "binding", "serving", "killed", "stopped"}
  /\ registry \in Seq(Entries) /\ \A i \in DOMAIN registry : registry[i].badge \in {0, i}
  /\ mapped \subseteq Clients
  /\ slots \in [Slots -> {"free", "used", "full", "lost"}]
  /\ ep \in Seq(Requests)
  /\ conn \in [Clients -> ConnStates]
  /\ badge \in [Clients -> Nat]

Queued(c) == \E k \in DOMAIN ep : ep[k].client = c

Up == server \in {"binding", "serving"}

(* The registry has the window of every connected client, mapped. *)
ConnectedRegistered ==
  \A c \in Clients : conn[c] = "connected" =>
    /\ Allocated(badge[c])
    /\ registry[badge[c]].shmem = c
    /\ c \in mapped

(* Clients that were given endpoints and have not closed them have badges    *)
(* that are in the registry, each its own: "a new, unique badge value".     *)
BadgesUnique ==
  LET engaged == {c \in Clients : conn[c] \in {"minted", "waiting", "connected"}} IN
  /\ \A c \in engaged : Allocated(badge[c])
  /\ \A c, d \in engaged : c # d => badge[c] # badge[d]

(* No window stays mapped, and no slot allocated, without a connection that  *)
(* its client still has, or asks for.                                       *)
WindowsExact ==
  /\ \A c \in mapped : /\ conn[c] \in {"connected", "waiting"}
                       /\ Allocated(badge[c])
                       /\ registry[badge[c]].shmem = c
  /\ Cardinality({s \in Slots : slots[s] = "used"}) = Cardinality(mapped)

(* A queued request is the only one of its sender, which waits, under the    *)
(* badge it has; who asks to connect has no window mapped, others have.     *)
RequestsSound ==
  /\ \A k \in DOMAIN ep :
       /\ conn[ep[k].client] = "waiting" /\ ep[k].badge = badge[ep[k].client]
       /\ IF ep[k].func = "connect" THEN ep[k].back = "minted" /\ ep[k].client \notin mapped
                                    ELSE ep[k].back = "connected" /\ ep[k].client \in mapped
  /\ \A j, k \in DOMAIN ep : j # k => ep[j].client # ep[k].client

(* Whatever badges serial_server_badge_value_alloc() hands out and takes     *)
(* back, and wherever serial_server_func_connect() fails: until the server  *)
(* has stopped, its registry, mappings and slots and the clients' view of   *)
(* their connections are the same.                                          *)
ConnectionsExact ==
  /\ TypeOK
  /\ orderly /\ server # "stopped" =>
       ConnectedRegistered /\ BadgesUnique /\ WindowsExact /\ RequestsSound

(* What serial_server_func_write() prints is mapped, and is the window of    *)
(* the client that asked.                                                   *)
OwnOutput ==
  orderly /\ output.by \in Clients =>
    output.windows = {output.by} /\ output.there = output.windows

(* Every call is answered while the server is up; when closed connections   *)
(* are used, serial_server_main() may ignore a request, but takes it from   *)
(* the endpoint, so that nobody waits behind it.                            *)
CallsReturn ==
  \A c \in Clients :
    conn[c] = "waiting" ~> \/ conn[c] # "waiting"
                           \/ ~Up
                           \/ ~orderly /\ ~Queued(c)

(* A server that was killed leaves no window mapped and no slot in use,     *)
(* whatever was connected, queued or half refused when                      *)
(* serial_server_func_kill() came.                                          *)
KillReleases ==
  orderly /\ server = "stopped" /\ parent # "down" =>
    mapped = {} /\ \A s \in Slots : slots[s] # "used"

(* The registry agrees with mappings, slots and clients while the server is *)
(* up, and when serial_server_func_kill() has stopped it nothing remains.   *)
RegistryExact == ConnectionsExact /\ KillReleases
===============================================================================
