------------------------------ MODULE AvahiPoll ------------------------------
(***************************************************************************)
(* The poll interface that Avahi is given over libevent, mdns_avahi.c: its *)
(* watches stay until they are freed and its timeouts are told once, while *)
(* the events under both fire once. libevent finds in one round all that   *)
(* has fired and then runs the callbacks one by one, so that a callback    *)
(* can update or free what waits to be told itself, as it can the watch it *)
(* was called for. That memory runs out is not modelled.                   *)
(***************************************************************************)
EXTENDS Integers

CONSTANTS
  Watches,     \* AvahiWatch, by address: a freed one may be made again
  Timeouts     \* AvahiTimeout

VARIABLES
  watch,       \* watch[w]: [used, asked, pending, fired]
  timeout,     \* timeout[t]: [used, asked, pending, fired]
  calling      \* whose callback runs, or {}

\* used: in all_w or all_t; asked: what Avahi wants to be told; pending: what the event
\* waits for; fired: what libevent has found and not told yet.
pollVars == <<watch, timeout, calling>>

\* AvahiWatchEvent, of which the others are only reported
Events == {"IN", "OUT"}

NoWatch == [used |-> FALSE, asked |-> {}, pending |-> {}, fired |-> {}]

NoTimeout == [used |-> FALSE, asked |-> FALSE, pending |-> FALSE, fired |-> FALSE]

PollInit ==
  /\ watch = [w \in Watches |-> NoWatch] /\ timeout = [t \in Timeouts |-> NoTimeout]
  /\ calling = {}

\* A round of libevent, when the callbacks of the last one have run. An event for a file
\* stays in place until its callback, a timer does not.
Poll(found, expired) ==
  /\ calling = {} /\ \A w \in Watches : watch[w].fired = {}
  /\ \A t \in Timeouts : ~timeout[t].fired
  /\ \A w \in Watches : found[w] \subseteq watch[w].pending
  /\ \A t \in expired : timeout[t].pending
  /\ watch' = [w \in Watches |-> [watch[w] EXCEPT !.fired = found[w]]]
  /\ timeout' = [t \in Timeouts |->
       IF t \in expired THEN [timeout[t] EXCEPT !.pending = FALSE, !.fired = TRUE] ELSE timeout[t]]
  /\ UNCHANGED calling

-----------------------------------------------------------------------------
(* Watches *)

\* _ev_watch_add: a new event in place of the one there was, which may have fired.
WatchAdd(w, asked) ==
  watch' = [watch EXCEPT ![w] = [used |-> TRUE, asked |-> asked, pending |-> asked, fired |-> {}]]

\* ev_watch_new
WatchNew(w, asked) == ~watch[w].used /\ WatchAdd(w, asked) /\ UNCHANGED <<timeout, calling>>

\* ev_watch_update
WatchUpdate(w, asked) == watch[w].used /\ WatchAdd(w, asked) /\ UNCHANGED <<timeout, calling>>

\* ev_watch_free
WatchFree(w) ==
  watch[w].used /\ watch' = [watch EXCEPT ![w] = NoWatch] /\ UNCHANGED <<timeout, calling>>

\* evcb_watch: the event, which fired once, is added again before the callback.
EvcbWatch(w) ==
  /\ calling = {} /\ watch[w].fired # {} /\ calling' = {w}
  /\ watch' = [watch EXCEPT ![w].pending = watch[w].asked, ![w].fired = {}]
  /\ UNCHANGED timeout

-----------------------------------------------------------------------------
(* Timeouts *)

\* _ev_timeout_add: as for a watch. Without a time the event goes, or was never made.
TimeoutAdd(t, timed) ==
  timeout' = [timeout EXCEPT ![t] = [used |-> TRUE, asked |-> timed, pending |-> timed, fired |-> FALSE]]

\* ev_timeout_new
TimeoutNew(t, timed) == ~timeout[t].used /\ TimeoutAdd(t, timed) /\ UNCHANGED <<watch, calling>>

\* Mutant: without a time the event stays as it is.
TimeoutUpdateKept(t, timed) ==
  /\ timeout[t].used /\ UNCHANGED <<watch, calling>>
  /\ IF timed THEN TimeoutAdd(t, timed) ELSE timeout' = [timeout EXCEPT ![t].asked = FALSE]

\* ev_timeout_update
TimeoutUpdate(t, timed) == timeout[t].used /\ TimeoutAdd(t, timed) /\ UNCHANGED <<watch, calling>>

\* ev_timeout_free
TimeoutFree(t) ==
  timeout[t].used /\ timeout' = [timeout EXCEPT ![t] = NoTimeout] /\ UNCHANGED <<watch, calling>>

\* evcb_timeout: Avahi is told, and sets the timeout again when it wants to be told again.
EvcbTimeout(t) ==
  /\ calling = {} /\ timeout[t].fired /\ calling' = {t}
  /\ timeout' = [timeout EXCEPT ![t].asked = FALSE, ![t].fired = FALSE] /\ UNCHANGED watch

\* Neither evcb_watch nor evcb_timeout touches anything after the callback.
CallbackReturns == calling # {} /\ calling' = {} /\ UNCHANGED <<watch, timeout>>

PollNext ==
  \/ \E found \in [Watches -> SUBSET Events], expired \in SUBSET Timeouts : Poll(found, expired)
  \/ \E w \in Watches :
       \/ \E asked \in SUBSET Events : WatchNew(w, asked) \/ WatchUpdate(w, asked)
       \/ WatchFree(w) \/ EvcbWatch(w)
  \/ \E t \in Timeouts :
       \/ \E timed \in BOOLEAN : TimeoutNew(t, timed) \/ TimeoutUpdate(t, timed)
       \/ TimeoutFree(t) \/ EvcbTimeout(t)
  \/ CallbackReturns

PollSpec == PollInit /\ [][PollNext]_pollVars

(* What libevent waits for is what Avahi asks now, whatever a callback did to the watches   *)
(* and timeouts that had fired with its own (mdns_avahi.c:98-186, 232-303): nothing that was *)
(* asked for is lost, a callback is due only of what is in use and for what it asks, and a  *)
(* timeout is told once at most.                                                            *)
WatchesFollowed ==
  /\ \A w \in Watches :
       /\ watch[w].pending = watch[w].asked /\ watch[w].fired \subseteq watch[w].asked
       /\ ~watch[w].used => watch[w].pending = {}
  /\ \A t \in Timeouts :
       /\ timeout[t].asked <=> timeout[t].pending \/ timeout[t].fired
       /\ ~(timeout[t].pending /\ timeout[t].fired)
       /\ ~timeout[t].used => ~timeout[t].asked
=============================================================================
