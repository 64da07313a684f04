------------------------- MODULE DebuggerInterfaces -------------------------
(***************************************************************************)
(* The interfaces of the debugger that the extension works with            *)
(* (acquireDbgEngIfaces, releaseDbgEngIfaces and reAcquireIfacesIfNeeded   *)
(* in dllmain.cpp).  The debugger hands its client to every command; the   *)
(* client of the last one and the interfaces it answered for are kept      *)
(* between commands, and replaced when another client comes.               *)
(***************************************************************************)
EXTENDS Integers

CONSTANTS
  Client,          \* the clients commands are invoked with
  OwnClient,       \* the one DebugExtensionInitialize creates
  NoClient,        \* a null pointer
  AcquireFailure,  \* the interfaces a client may refuse
  MaxChanges       \* bound: how often a client is left for another

\* In the order they are asked for.
QueryOrder == <<"DebugControl", "DebugSysObj", "DebugSymbols", "DebugAdvanced", "DebugDataSpaces">>

Interface == {QueryOrder[k] : k \in 1 .. 5}

ASSUME DebuggerInterfacesAssumption ==
  /\ OwnClient \notin Client
  /\ NoClient \notin Client \cup {OwnClient}
  /\ AcquireFailure \subseteq Interface
  /\ MaxChanges \in Nat

VARIABLES
  DebugClient,  \* g_HostCtxt.DebugClient
  iface,        \* the other five members: the client each was obtained from
  references,   \* what the extension has added to each client's reference counts
  caller        \* the client of the command in progress

ifaces == <<DebugClient, iface, references, caller>>

AnyClient == Client \cup {OwnClient}
Counted == Interface \cup {"DebugClient"}

InterfacesTypeOK ==
  /\ DebugClient \in AnyClient \cup {NoClient}
  /\ iface \in [Interface -> AnyClient \cup {NoClient}]
  /\ references \in [AnyClient -> [Counted -> Int]]
  /\ caller \in Client \cup {NoClient}

NoneHeld == [x \in Interface |-> NoClient]

\* The extension has been loaded: DebugCreate gave a client, with a reference.
InterfacesInit ==
  /\ DebugClient = OwnClient
  /\ iface = [x \in Interface |-> OwnClient]
  /\ references = [c \in AnyClient |-> [x \in Counted |-> IF c = OwnClient THEN 1 ELSE 0]]
  /\ caller = NoClient

-----------------------------------------------------------------------------

\* The reference counts after everything kept has been released, the client too,
\* though no reference was taken when it was stored.
Released ==
  [c \in AnyClient |->
     [x \in Counted |->
        references[c][x] -
          IF (x = "DebugClient" /\ DebugClient = c) \/ (x \in Interface /\ iface[x] = c)
          THEN 1 ELSE 0]]

releaseDbgEngIfaces ==
  /\ references' = Released
  /\ DebugClient' = NoClient
  /\ iface' = NoneHeld

\* The interfaces asked for before the one the client refuses, or all of them.
Obtained(refused) ==
  {QueryOrder[k] : k \in {n \in 1 .. 5 : \A j \in 1 .. n : QueryOrder[j] # refused}}

\* The client is stored, then its interfaces are asked for until one is refused
\* ("none": it gives them all).
acquireDbgEngIfaces(client, refused, held, counts) ==
  /\ DebugClient' = client
  /\ iface' = [x \in Interface |-> IF x \in Obtained(refused) THEN client ELSE held[x]]
  /\ references' = [counts EXCEPT ![client] =
                      [x \in Counted |-> @[x] + IF x \in Obtained(refused) THEN 1 ELSE 0]]

MayLeave(client) ==
  client \in Client => references[client]["DebugClient"] > -MaxChanges

\* Fault: the interfaces of the client before are overwritten.
reAcquireUnreleased(client, refused) ==
  IF client = DebugClient
  THEN refused = "none" /\ UNCHANGED <<DebugClient, iface, references>>
  ELSE MayLeave(DebugClient) /\ acquireDbgEngIfaces(client, refused, iface, references)

\* Fault: what has been acquired once is kept, whoever calls.
reAcquireOnce(client, refused) ==
  IF DebugClient \in Client
  THEN refused = "none" /\ UNCHANGED <<DebugClient, iface, references>>
  ELSE acquireDbgEngIfaces(client, refused, NoneHeld, Released)

reAcquireIfacesIfNeeded(client, refused) ==
  IF client = DebugClient
  THEN refused = "none" /\ UNCHANGED <<DebugClient, iface, references>>
  ELSE MayLeave(DebugClient) /\ acquireDbgEngIfaces(client, refused, NoneHeld, Released)

-----------------------------------------------------------------------------
(* Properties                                                              *)

\* A command works with interfaces of the client it was invoked with and with no
\* other's, although they are kept between commands, and although a client may
\* have refused some of them: in particular what it prints goes to that client.
InterfacesOfCaller ==
  caller # NoClient =>
    /\ DebugClient = caller
    /\ \A x \in Interface : iface[x] \in {caller, NoClient}
    /\ iface["DebugControl"] = caller \/ "DebugControl" \in AcquireFailure

\* Whatever clients refuse and in whatever order they come, a reference to an
\* interface is held exactly for what is kept, so that none is leaked or given back
\* twice.  Of the clients themselves only the extension's own was taken; the
\* debugger's may be released too often, but no reference to one is kept.
ReferencesBalanced ==
  /\ \A c \in AnyClient : \A x \in Interface :
       references[c][x] = IF iface[x] = c THEN 1 ELSE 0
  /\ references[OwnClient]["DebugClient"] = IF DebugClient = OwnClient THEN 1 ELSE 0
  /\ \A c \in Client : references[c]["DebugClient"] <= 0
=============================================================================
