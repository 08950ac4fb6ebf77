------------------------------ MODULE Discovery ------------------------------
(***************************************************************************)
(* Discovery of devices: the Avahi client of src/src/mdns_avahi.c, with    *)
(* its service browser, resolvers, record browsers and entry group, and    *)
(* airplay_device_cb of src/src/airplay.c, which tells the player of the   *)
(* addresses. A device is announced on the interfaces of a protocol, and   *)
(* has addresses of families of its own, besides link-local ones. Objects  *)
(* of Avahi are of the client they were made with.                         *)
(***************************************************************************)
EXTENDS Integers

CONSTANTS
  Names,         \* services, by name
  MaxClients,    \* bound: clients made, one after another
  MaxBrowsers    \* bound: service browsers of a client

ASSUME DiscoveryAssumption == MaxClients \in Nat /\ MaxBrowsers \in Nat

VARIABLES
  ipv6,          \* the configuration of the same name
  avahi,         \* state of the client: "none", "connecting", "running", "registering", "failed"
  generation,    \* which client mdns_client is
  browsing,      \* whether browser_list has the type
  browsers,      \* service browsers of the client, which have mb->protocol
  resolver,      \* resolver_list: <<name, protocol, client>>
  lookup,        \* record browsers: <<name, protocol, client>>
  air,           \* air[n]: protocols the service is announced on
  address,       \* address[n]: families in which the device can be connected to
  permanent,     \* services that are permanent by the config
  known,         \* known[n]: addresses the player has of it, one of a family
  entries,       \* whether group_entries has any
  group          \* mdns_group: "none", "reset" (without entries), or "committed" with all

discoveryVars ==
  <<ipv6, avahi, generation, browsing, browsers, resolver, lookup, air, address, permanent, known, entries, group>>

Families == {"INET", "INET6"}

\* mdns_init. The devices are on the net in one way or another.
DiscoveryInit ==
  /\ ipv6 \in BOOLEAN /\ avahi \in {"connecting", "running", "registering"} /\ generation = 1
  /\ browsing = FALSE /\ browsers = 0 /\ resolver = {} /\ lookup = {}
  /\ air = [n \in Names |-> {}] /\ address \in [Names -> SUBSET Families]
  /\ permanent \in SUBSET Names
  /\ known = [n \in Names |-> {}] /\ entries = FALSE /\ group = "none"

\* avahi_client_is_connected
Connected == avahi \in {"running", "registering"}

world == <<ipv6, air, address, permanent>>

-----------------------------------------------------------------------------
(* Lists and entries *)

ResolverAdd(n, proto) == resolver \cup {<<n, proto, generation>>}

\* It removes every resolver of the name and protocol, of whatever interface.
ResolverRemove(n, proto) == {r \in resolver : <<r[1], r[2]>> # <<n, proto>>}

\* resolver_remove_all
ResolversFreed == {}

\* create_group_entry without commit: the first entry makes the group. An entry that cannot
\* be added is left out; that the daemon refuses one is not modelled.
CreateGroupEntry(g) == IF g = "none" /\ Connected THEN "reset" ELSE g

\* create_all_group_entries: only a connected client makes or changes a group.
CreateAllGroupEntries(have, g) ==
  IF ~have \/ ~Connected THEN g
  ELSE IF CreateGroupEntry(g) = "none" THEN "none" ELSE "committed"

-----------------------------------------------------------------------------
(* The client *)

\* client_callback, S_RUNNING: the entries are published, unless there is a group, and
\* service browsers made, also when the client has them already.
ClientRunning ==
  /\ avahi \in {"connecting", "registering"} /\ avahi' = "running"
  /\ group' = IF group = "none" /\ entries THEN "committed" ELSE group
  /\ browsers' = IF browsing /\ browsers < MaxBrowsers THEN browsers + 1 ELSE browsers
  /\ UNCHANGED <<world, generation, browsing, resolver, lookup, known, entries>>

\* client_callback, S_REGISTERING and S_COLLISION: the host name changes.
ClientRegistering ==
  /\ avahi \in {"connecting", "running", "registering"} /\ avahi' = "registering"
  /\ group' = IF group = "none" THEN "none" ELSE "reset"
  /\ UNCHANGED <<world, generation, browsing, browsers, resolver, lookup, known, entries>>

\* avahi_client_new in place of the client that is lost, if one can be made: it connects
\* when there is a daemon again, or finds one at once and calls client_callback before
\* mdns_client is set. The service browsers and the group are then made with the client
\* that was freed, and are of the new one only if that got the same memory.
ClientAgain ==
  \/ avahi' \in {"none", "connecting", "registering"} /\ browsers' = 0 /\ group' = "none"
  \/ /\ avahi' = "running"
     /\ browsers' \in {0, IF browsing THEN 1 ELSE 0}
     /\ group' \in {"none", IF entries THEN "committed" ELSE "none"}

\* Mutant: the resolvers stay in the list.
ClientLostKept ==
  /\ Connected /\ generation < MaxClients
  /\ generation' = generation + 1 /\ ClientAgain /\ lookup' = {}
  /\ UNCHANGED <<world, browsing, resolver, known, entries>>

\* client_callback, FAILURE with ERR_DISCONNECTED: the daemon has gone. avahi_client_free
\* frees all the objects of the client.
ClientLost ==
  /\ Connected /\ generation < MaxClients
  /\ generation' = generation + 1 /\ ClientAgain
  /\ resolver' = ResolversFreed /\ lookup' = {}
  /\ UNCHANGED <<world, browsing, known, entries>>

\* client_callback, FAILURE for another reason: the client and its objects stay, but nothing
\* comes of them any more.
ClientFailed ==
  /\ avahi \notin {"none", "failed"} /\ avahi' = "failed"
  /\ UNCHANGED <<world, generation, browsing, browsers, resolver, lookup, known, entries, group>>

\* mdns_browse: without a daemon it fails, and the type is not browsed for later.
Browse ==
  /\ ~browsing /\ avahi # "none"
  /\ IF Connected THEN browsing' = TRUE /\ browsers' = browsers + 1 ELSE UNCHANGED <<browsing, browsers>>
  /\ UNCHANGED <<world, avahi, generation, resolver, lookup, known, entries, group>>

\* mdns_register and mdns_cname
Register ==
  /\ avahi # "none" /\ entries' = TRUE /\ group' = CreateAllGroupEntries(TRUE, group)
  /\ UNCHANGED <<world, avahi, generation, browsing, browsers, resolver, lookup, known>>

\* mdns_deinit: the lists are freed, then the client with all that is left of it.
MdnsDeinit ==
  /\ entries' = FALSE /\ browsing' = FALSE /\ resolver' = ResolversFreed
  /\ avahi' = "none" /\ browsers' = 0 /\ lookup' = {}
  /\ UNCHANGED <<world, generation, known, group>>

-----------------------------------------------------------------------------
(* What the player is told *)

\* airplay_device_cb with an address, and without; an address is put down with its family.
DeviceAdd(n, a) == known' = [known EXCEPT ![n] = {k \in @ : k.family # a.family} \cup {a}]
DeviceRemove(n, family) ==
  known' = IF n \in permanent THEN known ELSE [known EXCEPT ![n] = {k \in @ : k.family # family}]

-----------------------------------------------------------------------------
(* Services *)

\* An address that a service has: its family, and whether it is link-local.
Addresses == [family : Families, linkLocal : BOOLEAN]

\* connection_test
ConnectionTest(n, family) == family \in address[n]

\* address_check, with the flags of airplay_init.
AddressCheck(n, a) ==
  /\ a.family = "INET6" => ipv6
  /\ ~a.linkLocal
  /\ ConnectionTest(n, a.family)

\* mb->protocol
Browsed(proto) == proto = "INET6" => ipv6

\* A service appears on, or goes from, the interfaces of a protocol.
Announce(n, proto) ==
  /\ air' = [air EXCEPT ![n] = IF proto \in @ THEN @ \ {proto} ELSE @ \cup {proto}]
  /\ UNCHANGED <<ipv6, avahi, generation, browsing, browsers, resolver, lookup, address, permanent, known, entries, group>>

\* browse_callback, NEW. A resolver that a second browser adds for it is not told apart.
BrowserNew(n, proto) ==
  /\ Connected /\ browsers > 0 /\ Browsed(proto) /\ proto \in air[n]
  /\ \A r \in resolver : r # <<n, proto, generation>>
  /\ resolver' = ResolverAdd(n, proto)
  /\ UNCHANGED <<world, avahi, generation, browsing, browsers, lookup, known, entries, group>>

\* browse_callback, REMOVE: the player is told of the family of the interface.
BrowserRemove(n, proto) ==
  /\ Connected /\ browsers > 0 /\ proto \notin air[n] /\ <<n, proto, generation>> \in resolver
  /\ DeviceRemove(n, proto) /\ resolver' = ResolverRemove(n, proto)
  /\ UNCHANGED <<world, avahi, generation, browsing, browsers, lookup, entries, group>>

\* browse_callback, FAILURE: another browser takes its place, if it can be made.
BrowserFailure ==
  /\ Connected /\ browsers > 0 /\ browsers' \in {browsers, browsers - 1}
  /\ UNCHANGED <<world, avahi, generation, browsing, resolver, lookup, known, entries, group>>

\* browse_resolve_callback, not FOUND: the resolver stays, the service may come back.
ResolverFailure(n, proto) ==
  /\ Connected /\ <<n, proto, generation>> \in resolver /\ proto \notin air[n]
  /\ DeviceRemove(n, proto)
  /\ UNCHANGED <<world, avahi, generation, browsing, browsers, resolver, lookup, entries, group>>

\* browse_resolve_callback, FOUND: when the first address does not pass, a record browser
\* looks for another, of the family of the interface.
ResolverFound(n, proto) ==
  /\ Connected /\ <<n, proto, generation>> \in resolver /\ proto \in air[n]
  /\ \E a \in Addresses :
       IF AddressCheck(n, a) THEN DeviceAdd(n, a) /\ UNCHANGED lookup
       ELSE lookup' = lookup \cup {<<n, proto, generation>>} /\ UNCHANGED known
  /\ UNCHANGED <<world, avahi, generation, browsing, browsers, resolver, entries, group>>

\* Mutant: the address is passed on as it is.
RecordFoundUnchecked(l) ==
  /\ Connected
  /\ \E a \in Addresses : a.family = l[2] /\ DeviceAdd(l[1], a)
  /\ lookup' = lookup \ {l}
  /\ UNCHANGED <<world, avahi, generation, browsing, browsers, resolver, entries, group>>

\* browse_record_callback, NEW: an address that does not pass leaves the browser as it is.
RecordFound(l) ==
  /\ Connected
  /\ \E a \in Addresses : a.family = l[2] /\ AddressCheck(l[1], a) /\ DeviceAdd(l[1], a)
  /\ lookup' = lookup \ {l}
  /\ UNCHANGED <<world, avahi, generation, browsing, browsers, resolver, entries, group>>

\* browse_record_callback, CACHE_EXHAUSTED, ALL_FOR_NOW and FAILURE end the browser alike,
\* the first before what the network has to answer.
RecordEnds(l) ==
  /\ Connected /\ lookup' = lookup \ {l}
  /\ UNCHANGED <<world, avahi, generation, browsing, browsers, resolver, known, entries, group>>

DiscoveryNext ==
  \/ ClientRunning \/ ClientRegistering \/ ClientLost \/ ClientFailed
  \/ Browse \/ Register \/ MdnsDeinit \/ BrowserFailure
  \/ \E n \in Names, proto \in Families :
       \/ Announce(n, proto) \/ BrowserNew(n, proto) \/ BrowserRemove(n, proto)
       \/ ResolverFailure(n, proto) \/ ResolverFound(n, proto)
  \/ \E l \in lookup : RecordFound(l) \/ RecordEnds(l)

DiscoverySpec == DiscoveryInit /\ [][DiscoveryNext]_discoveryVars

-----------------------------------------------------------------------------
(* Properties *)

(* mdns_avahi.c:1124: no resolver in the list outlives the client it was made with, however *)
(* often the daemon goes; to free it later would use freed memory.                         *)
ResolversLive == \A r \in resolver : r[3] = generation

(* mdns_avahi.c:690: the player is told only of addresses that passed the check, whether   *)
(* the resolver or a record browser found them: of no link-local one, and of none of IPv6  *)
(* when that is off, although an address found over IPv4 may be of either family.          *)
KnownUsable ==
  \A n \in Names : \A k \in known[n] :
    k.family \in address[n] /\ ~k.linkLocal /\ (k.family = "INET6" => ipv6)
=============================================================================
