---------------------------- MODULE CacheService ----------------------------
(***************************************************************************)
(* What the cache handler (pkg/proxy/cache_handler.go) promises to the     *)
(* clients that read from it, without its lock and its informers: data     *)
(* comes from a complete cache of its kind, and a request that fails, but  *)
(* for a kind that cannot be looked up, has one of three excuses: its      *)
(* client is gone, the cache is not started yet, or its resource is        *)
(* spoiled.  The last is one that the code did not plan for:               *)
(* a resource is spoiled when the request that was filling its cache goes  *)
(* away, or when its kind is claimed under another name.                   *)
(***************************************************************************)
CONSTANTS
  Requests,   \* read requests
  Resources,  \* names under which objects are asked for
  KindFor,    \* the kind behind a name
  Asks        \* what the requests may ask for together

VARIABLES
  want,       \* want[r]: the resource that r asks for
  gone,       \* gone[r]: the client of r does not wait any longer
  answer,     \* answer[r]: "none", "data", "noKind" or "error"
  running,    \* the cache has been started
  complete,   \* the kinds whose objects are all in the cache
  spoiled     \* the resources that are refused from now on

vars == <<want, gone, answer, running, complete, spoiled>>

Init ==
  /\ want \in Asks
  /\ gone = [r \in Requests |-> FALSE]
  /\ answer = [r \in Requests |-> "none"]
  /\ running = FALSE
  /\ complete = {}
  /\ spoiled = {}

Start ==
  /\ running' = TRUE
  /\ UNCHANGED <<want, gone, answer, complete, spoiled>>

\* All objects of a kind are there.
Fill(k) ==
  /\ running
  /\ complete' = complete \cup {k}
  /\ UNCHANGED <<want, gone, answer, running, spoiled>>

\* The client of r goes away.
Leave(r) ==
  /\ answer[r] = "none"
  /\ gone' = [gone EXCEPT ![r] = TRUE]
  /\ UNCHANGED <<want, answer, running, complete, spoiled>>

Answers(r, with) ==
  /\ answer[r] = "none"
  /\ answer' = [answer EXCEPT ![r] = with]
  /\ UNCHANGED <<want, gone, running, complete>>

\* The answer is data, and all of it.
Serve(r) ==
  /\ KindFor[want[r]] \in complete
  /\ Answers(r, "data")
  /\ UNCHANGED spoiled

\* The kind of r cannot be looked up.
LookupFails(r) == Answers(r, "noKind") /\ UNCHANGED spoiled

\* Any other error has an excuse.
Refuse(r) ==
  /\ gone[r] \/ ~running \/ want[r] \in spoiled
  /\ Answers(r, "error")
  /\ UNCHANGED spoiled

\* r claims its kind, which spoils the other names of the kind.
Claim(r) ==
  /\ answer[r] = "none"
  /\ spoiled' = spoiled \cup
                  {g \in Resources \ {want[r]} : KindFor[g] = KindFor[want[r]]}
  /\ UNCHANGED <<want, gone, answer, running, complete>>

\* The client goes away while its request fills the cache.
Abandon(r) ==
  /\ gone[r]
  /\ Answers(r, "error")
  /\ spoiled' = spoiled \cup {want[r]}

Next ==
  \/ Start
  \/ \E k \in {KindFor[g] : g \in Resources} : Fill(k)
  \/ \E r \in Requests :
       \/ Leave(r) \/ Claim(r) \/ Serve(r)
       \/ LookupFails(r) \/ Refuse(r) \/ Abandon(r)

Spec == Init /\ [][Next]_vars
=============================================================================
