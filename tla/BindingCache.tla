---------------------------- MODULE BindingCache ----------------------------
(***************************************************************************)
(* How bindings travel from the cloud controller to a syslog agent:         *)
(*   - the API answers the binding cache page by page (pkg/ingress/api);    *)
(*   - the cache's Poller collects the pages and replaces its Store         *)
(*     (pkg/binding/poller.go, store.go), at boot before it serves;         *)
(*   - GET /bindings answers what the Store holds (pkg/cache);              *)
(*   - the agent's fetchers cut every app's list to the limit and leave out *)
(*     the drains it must not or cannot use (pkg/ingress/cups), and the     *)
(*     binding manager takes over the result.                               *)
(*                                                                         *)
(* A binding is a pair of an app and a drain; an app is listed on one page, *)
(* fixed, when it has drains.  Drains are numbers in the order of           *)
(* sort.Strings on their URLs.                                              *)
(***************************************************************************)
EXTENDS Integers, FiniteSets, FiniteSetsExt

CONSTANTS
  App, NumPages, PageOf,  \* PageOf[a]: the page of the API that lists app a
  Drain,                  \* the drain URLs, numbers in sort order
  DrainSets,              \* bound: the sets of drains an app may have
  Kind,                   \* Kind[d]: what the agent makes of a drain URL
  Limit,                  \* BindingsPerAppLimit
  MaxCrashes,             \* bound: crashes of the cache
  NoAnswer                \* no answer of the cache is under way

ASSUME CacheAssumption ==
  /\ NumPages \in Nat \ {0}
  /\ PageOf \in [App -> 1 .. NumPages]
  /\ IsFiniteSet(Drain) /\ Drain \subseteq Nat
  /\ DrainSets \subseteq SUBSET Drain
  /\ Kind \in [Drain -> {"good", "unparsable", "noHost", "badScheme",
                         "blacklisted"}]
  /\ Limit \in Nat
  /\ MaxCrashes \in Nat

VARIABLES
  desired,    \* the bindings the cloud controller has
  apiUp,      \* the API answers
  dnsUp,      \* drain hosts resolve
  cache,      \* the cache process: "down", "booting" or "serving"
  nextID,     \* the page the Poller asks for next; 0: not polling
  pages,      \* poll's bindings, collected so far
  store,      \* the Store's bindings
  answer,     \* the agent's Get: what the handler encoded, or NoAnswer
  hung,       \* whose request hangs: "poller", "agent"
  agent,      \* the bindings the agent's manager took over
  crashes,
  steady,     \* history: the apps whose bindings never changed; none any more
              \* once a page failed, the cache crashed or a lookup failed
  fetchedOnce \* history: the agent has taken over an answer

apiVars == <<desired, apiUp, dnsUp>>
cacheVars == <<cache, nextID, pages, store, crashes>>
agentVars == <<answer, agent, fetchedOnce>>
vars == <<apiVars, cacheVars, agentVars, hung, steady>>

Binding == App \X Drain
Of(B, a) == {d \in Drain : <<a, d>> \in B}

-----------------------------------------------------------------------------
(* The first ones in sort order. *)
Limited(D) == {d \in D : Cardinality({e \in D : e <= d}) <= Limit}

(* Faulty variant of toSyslogBindings: what does not parse is skipped first. *)
toSyslogBindingsParsed(B) ==
  LET parsed == {x \in B : Kind[x[2]] # "unparsable"}
  IN  {x \in parsed : x[2] \in Limited(Of(parsed, x[1]))}

(* toSyslogBindings: sort, cut to the limit, skip what url.Parse refuses. *)
toSyslogBindings(B) ==
  {x \in B : /\ x[2] \in Limited(Of(B, x[1]))
             /\ Kind[x[2]] # "unparsable"}

(* FilteredBindingFetcher leaves a drain out if it has no host or a scheme  *)
(* that is not allowed, if its host does not resolve, or if it resolves     *)
(* into a blacklisted range.                                                *)
Invalid(B) == {x \in B : ~dnsUp \/ Kind[x[2]] # "good"}

(* Faulty variant of NextPage: next_id is not followed. *)
NoNextPage(p) == 0

(* What the API answers for page p, and the next_id it gives. *)
Results(p) == {x \in desired : PageOf[x[1]] = p}
NextPage(p) == IF p < NumPages THEN p + 1 ELSE 0

(* Faulty variant of Stored: a list is added to what the Store holds. *)
StoredOnTop(B) == store \cup B

(* Store.Set ignores nil, and the list of a poll without results is nil. *)
Stored(B) == IF B = {} THEN store ELSE B

-----------------------------------------------------------------------------
Init ==
  /\ desired \in {B \in SUBSET Binding : \A a \in App : Of(B, a) \in DrainSets}
  /\ apiUp = TRUE /\ dnsUp = TRUE
  /\ cache = "down"
  /\ nextID = 0
  /\ pages = {}
  /\ store = {}
  /\ answer = NoAnswer
  /\ hung = {}
  /\ agent = {}
  /\ crashes = 0
  /\ steady = App
  /\ fetchedOnce = FALSE

(* The cloud controller: an app's drains change; API and DNS come and go. *)
Rebind(a, D) ==
  /\ D # Of(desired, a)
  /\ desired' = {x \in desired : x[1] # a} \cup {<<a, d>> : d \in D}
  /\ steady' = steady \ {a}
  /\ UNCHANGED <<apiUp, dnsUp, cacheVars, agentVars, hung>>

ToggleAPI ==
  /\ apiUp' = ~apiUp
  /\ UNCHANGED <<desired, dnsUp, cacheVars, agentVars, hung, steady>>

ToggleDNS ==
  /\ dnsUp' = ~dnsUp
  /\ UNCHANGED <<desired, apiUp, cacheVars, agentVars, hung, steady>>

(* Run: an empty store, and a first poll before anything is served. *)
StartCache ==
  /\ cache = "down"
  /\ cache' = "booting"
  /\ store' = {}
  /\ nextID' = 1
  /\ pages' = {}
  /\ UNCHANGED <<apiVars, agentVars, hung, crashes, steady>>

(* Poll: the ticker of a serving cache starts a poll. *)
StartPoll ==
  /\ cache = "serving"
  /\ nextID = 0
  /\ nextID' = 1
  /\ pages' = {}
  /\ UNCHANGED <<apiVars, agentVars, hung, cache, store, crashes, steady>>

(* store.Set, when poll leaves its loop; after the first poll Run serves. *)
FinishPoll(B) ==
  /\ store' = Stored(B)
  /\ nextID' = 0
  /\ pages' = {}
  /\ cache' = "serving"

(* Get waits for ever: its client has no timeout for the answer of a server  *)
(* that took the connection.                                                 *)
PageHangs ==
  /\ nextID # 0 /\ "poller" \notin hung
  /\ hung' = hung \cup {"poller"}
  /\ UNCHANGED <<apiVars, cacheVars, agentVars, steady>>

PageArrives ==
  /\ nextID # 0 /\ "poller" \notin hung
  /\ apiUp
  /\ LET got == pages \cup Results(nextID)
     IN  IF NextPage(nextID) = 0
           THEN FinishPoll(got)
           ELSE /\ pages' = got
                /\ nextID' = NextPage(nextID)
                /\ UNCHANGED <<cache, store>>
  /\ UNCHANGED <<apiVars, agentVars, hung, crashes, steady>>

(* Get fails or the body does not decode; an error status with a JSON body, *)
(* which is not looked at, has the same effect: break, and store what came. *)
PageFails ==
  /\ nextID # 0 /\ "poller" \notin hung
  /\ ~apiUp
  /\ FinishPoll(pages)
  /\ steady' = {}
  /\ UNCHANGED <<apiVars, agentVars, hung, crashes>>

(* The Poller is gone with the process; a request of the agent may fail, one *)
(* that hangs too.                                                           *)
Crash ==
  /\ cache # "down"
  /\ crashes < MaxCrashes
  /\ crashes' = crashes + 1
  /\ cache' = "down"
  /\ store' = {} /\ pages' = {} /\ nextID' = 0
  /\ steady' = {}
  /\ hung' \in {{}, hung \ {"poller"}}
  /\ answer' \in {answer, NoAnswer}
  /\ UNCHANGED <<apiVars, agent, fetchedOnce>>

(* The agent's Get reaches the handler, which encodes the store; an error    *)
(* of Get (cache down) leaves the agent as it is.                           *)
HandlerAnswers ==
  /\ cache = "serving"
  /\ answer = NoAnswer /\ "agent" \notin hung
  /\ answer' = store
  /\ UNCHANGED <<apiVars, cacheVars, agent, hung, fetchedOnce, steady>>

(* The agent's Get waits for ever, for the answer or the rest of it. *)
FetchHangs ==
  /\ cache = "serving" \/ answer # NoAnswer
  /\ "agent" \notin hung
  /\ hung' = hung \cup {"agent"}
  /\ answer' = NoAnswer
  /\ UNCHANGED <<apiVars, cacheVars, agent, fetchedOnce, steady>>

(* FetchBindings filters the answer and the manager takes it over. *)
FetchBindings ==
  /\ answer # NoAnswer
  /\ LET source == toSyslogBindings(answer)
     IN  agent' = source \ Invalid(source)
  /\ answer' = NoAnswer
  /\ fetchedOnce' = TRUE
  /\ steady' = IF dnsUp THEN steady ELSE {}
  /\ UNCHANGED <<apiVars, cacheVars, hung>>

poll == StartPoll \/ PageArrives \/ PageFails

Next ==
  \/ \E a \in App, D \in DrainSets : Rebind(a, D)
  \/ ToggleAPI
  \/ ToggleDNS
  \/ StartCache
  \/ poll
  \/ PageHangs
  \/ Crash
  \/ HandlerAnswers
  \/ FetchHangs
  \/ FetchBindings

(* A crashed cache is restarted and both tickers keep firing.  A request ends *)
(* unless it hangs, and no timeout ends one that does.                        *)
Fairness ==
  /\ WF_vars(StartCache)
  /\ WF_vars(poll)
  /\ WF_vars(HandlerAnswers)
  /\ WF_vars(FetchBindings)

Spec == Init /\ [][Next]_vars /\ Fairness

-----------------------------------------------------------------------------
(* What an agent should drain for an app that has the drains D. *)
Usable(D) == {d \in Limited(D) : Kind[d] = "good"}

(* An app whose bindings do not change keeps exactly its usable drains, on   *)
(* every agent, from the agent's first fetch on, however the polls of other  *)
(* apps and pages interleave with the fetches, as long as no page, no lookup *)
(* and no cache failed (a failure may cost them: a poll that fails half way  *)
(* still replaces the store, and a restarted cache may serve an empty one).  *)
SteadyAppKeepsDrains ==
  fetchedOnce =>
    \A a \in steady : Of(agent, a) = Usable(Of(desired, a))

(* What an agent drains for an app is what the limit and then the filters    *)
(* leave of one list the app has had: never of two of them mixed on the way,  *)
(* and no drain behind the limit in place of one that was filtered out.  So   *)
(* no app occupies more than its limit.                                      *)
AgentWithinPolicy ==
  \A a \in App :
    /\ \E D \in DrainSets : Of(agent, a) \subseteq Usable(D)
    /\ Cardinality(Of(agent, a)) <= Limit

(* Once the cloud controller, the API and DNS stay as they are, the store     *)
(* ends up with the bindings that are left, if any, and every agent with the  *)
(* usable ones of the store.  A poll that hangs stops the first for good, and  *)
(* the second if it is the one before the cache serves; an agent whose fetch   *)
(* hangs keeps what it has.                                                   *)
Converges ==
  <>[](apiUp /\ dnsUp) /\ <>[][UNCHANGED desired]_vars =>
    /\ <>[]("poller" \in hung \/ desired = {} \/ store = desired)
    /\ <>[](\/ "agent" \in hung
            \/ "poller" \in hung /\ cache = "booting"
            \/ \A a \in App : Of(agent, a) = Usable(Of(store, a)))

(* A poll that got all its pages stores what they say (poller_test.go, "calls *)
(* the api client and stores the result").                                    *)
PollStoresResult ==
  [][PageArrives /\ nextID' = 0 => store' = pages \cup Results(nextID)]_vars
=============================================================================
