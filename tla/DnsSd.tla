--------------------------------- MODULE DnsSd ---------------------------------
(***************************************************************************)
(* Discovery over the dns_sd library (src/src/mdns_dnssd.c), which stands  *)
(* in for mdns_avahi.c on systems with Bonjour: a browser, as airplay_init *)
(* makes it, its resolvers, which end by a timer or when their service is  *)
(* withdrawn, and their lookups of addresses. All of it runs on the main   *)
(* event loop.                                                             *)
(***************************************************************************)
EXTENDS Integers, SequencesExt

CONSTANTS
  Services,      \* a service on an interface, in a domain
  MaxResolvers,  \* bound: resolvers made, one after another
  MaxLookups     \* bound: lookups of a resolver

ASSUME DnsSdAssumption == MaxResolvers \in Nat /\ MaxLookups \in Nat

VARIABLES
  connection,    \* mdns_sdref_main # NULL
  registered,    \* what mdns_services and mdns_records keep
  browser,       \* mdns_browsers has the browser
  protocol,      \* mb->protocol
  res_uuid,      \* mb->res_uuid
  resolvers,     \* mb->resolvers: [service, uuid, timed, lookups], where timed is its timer pending
  reported,      \* services of which the library reported the last change as an addition
  passed         \* passed[s]: families in which the player was told of an address of s

sdVars == <<connection, registered, browser, protocol, res_uuid, resolvers, reported, passed>>

SdFamilies == {"IPv4", "IPv6"}

\* mdns_init. When any part of it fails all of it is freed.
SdInit ==
  /\ connection \in BOOLEAN /\ registered = {} /\ browser = FALSE
  /\ protocol \in {{"IPv4"}, SdFamilies} /\ res_uuid = 0 /\ resolvers = <<>>
  /\ reported = {} /\ passed = [s \in Services |-> {}]

\* What the library takes is kept until the end.
Registered(kind) ==
  /\ connection /\ registered' = registered \cup {kind}
  /\ UNCHANGED <<connection, browser, protocol, res_uuid, resolvers, reported, passed>>

\* mdns_register, mdns_cname
SdRegister == Registered("service")
SdCname == Registered("record")

\* mdns_browse
SdBrowse ==
  /\ connection /\ ~browser /\ browser' = TRUE
  /\ UNCHANGED <<connection, registered, protocol, res_uuid, resolvers, reported, passed>>

\* mdns_main_free frees the browser with its resolvers, and these with timers and lookups.
SdDeinit ==
  /\ connection /\ connection' = FALSE /\ registered' = {} /\ browser' = FALSE /\ resolvers' = <<>>
  /\ UNCHANGED <<protocol, res_uuid, reported, passed>>

-----------------------------------------------------------------------------
(* Resolvers *)

\* Mutant: the number is not counted up.
NextUuidSame == res_uuid

NextUuid == res_uuid + 1

NewResolver(s, uuid) == [service |-> s, uuid |-> uuid, timed |-> TRUE, lookups |-> 0]

\* mdns_browse_callback, Add: mdns_resolve_start puts a resolver first in the list, with its
\* timer, unless the library refuses it. The library reports changes, so s was not there.
BrowseAdd(s) ==
  /\ browser /\ s \notin reported /\ res_uuid < MaxResolvers
  /\ reported' = reported \cup {s} /\ res_uuid' = NextUuid
  /\ resolvers' \in {<<NewResolver(s, NextUuid)>> \o resolvers, resolvers}
  /\ UNCHANGED <<connection, registered, browser, protocol, passed>>

\* mdns_browse_callback, no Add: mdns_resolve_cancel; the player is called with no family,
\* which withdraws none of its addresses (airplay.c:3756).
BrowseRemove(s) ==
  /\ browser /\ s \in reported /\ reported' = reported \ {s}
  /\ LET OfService(r) == r.service = s IN resolvers' = RemoveFirstMatch(resolvers, OfService)
  /\ UNCHANGED <<connection, registered, browser, protocol, res_uuid, passed>>

\* mdns_resolve_timeout_cb: the timer knows its resolver by uuid only. A timer is freed with
\* its resolver.
ResolveTimeout(i) ==
  /\ resolvers[i].timed
  /\ LET OfUuid(r) == r.uuid = resolvers[i].uuid
     IN resolvers' = RemoveFirstMatch([resolvers EXCEPT ![i].timed = FALSE], OfUuid)
  /\ UNCHANGED <<connection, registered, browser, protocol, res_uuid, reported, passed>>

\* mdns_resolve_callback without an error: mdns_addr_lookup_start
Resolved(i) ==
  /\ resolvers[i].lookups < MaxLookups
  /\ resolvers' = [resolvers EXCEPT ![i].lookups = @ + 1]
  /\ UNCHANGED <<connection, registered, browser, protocol, res_uuid, reported, passed>>

\* mdns_lookup_callback with Add, and mdns_browse_call_cb: a link-local address, or one of
\* another protocol, is not passed on.
LookedUp(i) ==
  /\ resolvers[i].lookups > 0
  /\ \E family \in protocol : passed' = [passed EXCEPT ![resolvers[i].service] = @ \cup {family}]
  /\ UNCHANGED <<connection, registered, browser, protocol, res_uuid, resolvers, reported>>

SdNext ==
  \/ SdBrowse \/ SdDeinit \/ SdRegister \/ SdCname
  \/ \E s \in Services : BrowseAdd(s) \/ BrowseRemove(s)
  \/ \E i \in DOMAIN resolvers : ResolveTimeout(i) \/ Resolved(i) \/ LookedUp(i)

SdSpec == SdInit /\ [][SdNext]_sdVars

-----------------------------------------------------------------------------
(* "so we can search for resolver without leaking" (mdns_dnssd.c:782): a resolver is in the *)
(* list, and tells of addresses, only while its service is on the net and its own timer is *)
(* to end it. It takes two resolvers, and the timer of one, to leave one behind.           *)
ResolversEnd ==
  \A i \in DOMAIN resolvers : resolvers[i].timed /\ resolvers[i].service \in reported
=============================================================================
