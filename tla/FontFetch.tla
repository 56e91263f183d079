------------------------------- MODULE FontFetch -------------------------------
(***************************************************************************)
(* Fonts fetched on demand: the tracker of the core (element/font_fetch.rs *)
(* and its callers in tree.rs and layout_pass.rs), the fetcher of the web  *)
(* adapter (platform/web/src/canvas.rs) and the mailbox between them       *)
(* (app-host/src/font_mailbox.rs).                                         *)
(*                                                                         *)
(* A layout that misses a family queues a FetchFont event; the next frame  *)
(* hands the event to the fetcher, whose asynchronous result waits in the  *)
(* mailbox for a later frame.  The steps are operators: FrameLoop says     *)
(* when each of them runs.  A fetch ends after its backoff, so the delays  *)
(* are only the time FetchEnds takes.                                      *)
(***************************************************************************)
EXTENDS Naturals

CONSTANTS
  Families,      \* the font families texts may ask for
  Unresolvable,  \* those the adapter has no URL for
  Lacking,       \* those whose face has no glyph for the text that asks for it
  MaxAttempts    \* MAX_FETCH_ATTEMPTS: failures after which the core gives up

ASSUME FontAssumption ==
  /\ Unresolvable \subseteq Families
  /\ Lacking \subseteq Families
  /\ MaxAttempts \in Nat \ {0}

VARIABLES
  inFlight,    \* FontFetchTracker.in_flight: requested, no result yet
  attempts,    \* FontFetchTracker.attempts: failures so far
  exhausted,   \* FontFetchTracker.exhausted: given up
  requested,   \* the FetchFont events no frame has handed to the fetcher yet
  fetching,    \* the fetches of the adapter under way
  fontMailbox, \* the results no frame has drained yet
  registered,  \* the families in the font collection
  fontsDirty   \* ElementEngine.fonts_dirty: every text is to be shaped again

tracker == <<inFlight, attempts, exhausted>>
fontVars == <<tracker, requested, fetching, fontMailbox, registered, fontsDirty>>

Result == [family: Families, loaded: BOOLEAN]

FontTypeOK ==
  /\ inFlight \subseteq Families
  /\ attempts \in [Families -> 0 .. MaxAttempts - 1]
  /\ exhausted \subseteq Families
  /\ requested \subseteq Families
  /\ fetching \subseteq Families
  /\ fontMailbox \subseteq Result
  /\ registered \subseteq Families
  /\ fontsDirty \in BOOLEAN

FontInit ==
  /\ inFlight = {}
  /\ attempts = [f \in Families |-> 0]
  /\ exhausted = {}
  /\ requested = {}
  /\ fetching = {}
  /\ fontMailbox = {}
  /\ registered = {}
  /\ fontsDirty = FALSE

ShouldRequest(f) == f \notin inFlight \union exhausted

\* Shaping misses a family that is not in the collection, and one whose face
\* leaves the text with .notdef glyphs, registered or not.
Missing(f) == f \notin registered \/ f \in Lacking

\* The layout has shaped texts that use these families.
DetectMissing(families) ==
  LET missed == {f \in families : Missing(f) /\ ShouldRequest(f)}
  IN /\ inFlight' = inFlight \union missed
     /\ requested' = requested \union missed
     /\ fontsDirty' = FALSE
     /\ UNCHANGED <<attempts, exhausted, fetching, fontMailbox, registered>>

\* The fetcher starts a fetch for each event, except for a family without URL,
\* of which nobody ever hears again.
DriveRequests ==
  /\ requested' = {}
  /\ fetching' = fetching \union (requested \ Unresolvable)

Loaded == {r.family : r \in {s \in fontMailbox : s.loaded}}

Failed == {r.family : r \in {s \in fontMailbox : ~s.loaded}}

GivesUp(f) == attempts[f] + 1 >= MaxAttempts

\* Mutant: a failure leaves the family in flight.
MarkResultsLatches ==
  /\ inFlight' = inFlight \ Loaded
  /\ attempts' = [f \in Families |->
                    IF f \in Loaded \/ (f \in Failed /\ GivesUp(f)) THEN 0
                    ELSE IF f \in Failed THEN attempts[f] + 1
                    ELSE attempts[f]]
  /\ exhausted' = (exhausted \ Loaded) \union {f \in Failed : GivesUp(f)}

\* mark_loaded forgets the family, mark_failed counts, and gives up at the limit.
MarkResults ==
  /\ inFlight' = inFlight \ (Loaded \union Failed)
  /\ attempts' = [f \in Families |->
                    IF f \in Loaded \/ (f \in Failed /\ GivesUp(f)) THEN 0
                    ELSE IF f \in Failed THEN attempts[f] + 1
                    ELSE attempts[f]]
  /\ exhausted' = (exhausted \ Loaded) \union {f \in Failed : GivesUp(f)}

\* A frame takes the results: a loaded face is registered, and both a loaded
\* face and a failure that may be retried have every text shaped again.
DrainMailbox ==
  /\ MarkResults
  /\ fontMailbox' = {}
  /\ registered' = registered \union Loaded
  /\ fontsDirty' = (fontsDirty \/ Loaded # {} \/ \E f \in Failed : ~GivesUp(f))

\* A fetch ends, after the backoff when it failed, and its result is posted;
\* nothing asks for a frame.
FetchEnds(f, loaded) ==
  /\ f \in fetching
  /\ fetching' = fetching \ {f}
  /\ fontMailbox' = fontMailbox \union {[family |-> f, loaded |-> loaded]}
  /\ UNCHANGED <<tracker, requested, registered, fontsDirty>>

-----------------------------------------------------------------------------
(* What the books of the three parties have in common                      *)

\* The tracker believes a family in flight exactly when its one request is
\* somewhere: an event, a fetch, or a result; or it was swallowed for want of a
\* URL. A family given up is not asked for again.
BooksAgree ==
  /\ inFlight \ Unresolvable =
       (requested \union fetching \union Loaded \union Failed) \ Unresolvable
  /\ requested \subseteq inFlight
  /\ (fetching \union Loaded \union Failed) \cap Unresolvable = {}
  /\ requested \cap fetching = {}
  /\ (requested \union fetching) \cap (Loaded \union Failed) = {}
  /\ Loaded \cap Failed = {}
  /\ exhausted \cap inFlight = {}
=============================================================================
