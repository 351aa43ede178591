----------------------------- MODULE DeviceSync -----------------------------
(***************************************************************************)
(* Change-driven sync (device_sync.py): heartbeat replies and the long poll *)
(* wait_for_change carry a version of each thing a client shows; a client   *)
(* fetches what has a version other than the one it holds.  The server      *)
(* keeps no record of what a client knows.  The directory's fingerprint is  *)
(* cached for all devices by whichever request computes it.                 *)
(*                                                                          *)
(* One client is followed.  The version of its directory is a hash of the   *)
(* content, here the content itself, which may change back.  The version of *)
(* its drops is the latest time in their rows, where a time is the start of *)
(* the transaction that wrote it, in milliseconds.  The third key is the    *)
(* request for a debug log (device_logs.py), which the next log to arrive   *)
(* clears: the client acts on its value and fetches nothing.  Build and     *)
(* status are versions of that kind.                                        *)
(***************************************************************************)
EXTENDS Naturals, FiniteSets, FiniteSetsExt

CONSTANTS
  Offers,          \* drops to or from the device
  Fillers,         \* other requests that may refresh the cache
  Contents,        \* what the directory may show
  FirstContent,
  Unknown,
  MaxSyncChanges,  \* changes to the directory and transactions that write drops
  MaxClientStarts  \* restarts of the client

ASSUME SyncAssumption ==
  /\ MaxSyncChanges \in Nat /\ MaxClientStarts \in Nat
  /\ Unknown \notin Nat /\ Unknown \notin BOOLEAN /\ Unknown \notin Contents
  /\ FirstContent \in Contents

VARIABLES
  directory,
  logWanted, \* debug_log_requested_at is set
  offer,     \* rows of filedrop_drops
  writing,   \* transactions that have begun and will write a row
  syncClock, syncChanges,
  seen,      \* history: versions that each fetched key has had
  recurred,  \* history: keys with a change that did not lead to a new version
  cache,     \* directory_cache
  filling,   \* fingerprints computed and not yet stored
  known,     \* versions the client holds
  fetching,  \* keys the client is about to fetch
  view,      \* what the client shows
  outbox,    \* the client has a log to upload
  clientStarts

dropRowVars == <<offer, writing, syncClock>>
historyVars == <<seen, recurred>>
serverVars == <<directory, logWanted, dropRowVars, syncChanges, historyVars>>
syncVars == <<serverVars, cache, filling, known, fetching, view, outbox, clientStarts>>

SyncKeys == {"directory", "log", "drops"}
Fetched == SyncKeys \ {"log"}

\* by: the transaction that wrote the row last.
NoOffer == [by |-> 0, created |-> 0, updated |-> 0]
OfferRows == [by : 0..MaxSyncChanges, created : 0..MaxSyncChanges, updated : 0..MaxSyncChanges]

\* What a client would be shown now.
DropList == {<<o, offer[o].by>> : o \in {x \in Offers : offer[x] # NoOffer}}
Actual == [directory |-> directory, drops |-> DropList]

SyncTypeOK ==
  /\ directory \in Contents /\ logWanted \in BOOLEAN
  /\ offer \in [Offers -> OfferRows]
  /\ writing \subseteq [id : 1..MaxSyncChanges, at : 1..MaxSyncChanges]
  /\ syncClock \in 0..syncChanges /\ syncChanges \in 0..MaxSyncChanges
  /\ seen \in [directory : SUBSET Contents, drops : SUBSET (0..MaxSyncChanges)]
  /\ recurred \subseteq Fetched
  /\ cache \in [value : Contents, fresh : BOOLEAN]
  /\ filling \in [Fillers -> Contents \cup {Unknown}]
  /\ known.directory \in Contents \cup {Unknown}
  /\ known.log \in BOOLEAN \cup {Unknown}
  /\ known.drops \in 0..MaxSyncChanges \cup {Unknown}
  /\ fetching \subseteq Fetched
  /\ outbox \in BOOLEAN
  /\ clientStarts \in 0..MaxClientStarts

\* Nothing is new, and the client knows it.
SyncInit ==
  /\ directory = FirstContent /\ logWanted = FALSE
  /\ offer = [o \in Offers |-> NoOffer] /\ writing = {}
  /\ syncClock = 0 /\ syncChanges = 0
  /\ seen = [directory |-> {FirstContent}, drops |-> {0}] /\ recurred = {}
  /\ cache = [value |-> FirstContent, fresh |-> FALSE]
  /\ filling = [f \in Fillers |-> Unknown]
  /\ known = [directory |-> FirstContent, log |-> FALSE, drops |-> 0]
  /\ fetching = {}
  /\ view = [directory |-> FirstContent, drops |-> {}]
  /\ outbox = FALSE /\ clientStarts = 0

-----------------------------------------------------------------------------
\* What versions_for calls the version of the drops: the latest time in any row.
DropsVersion == Max({offer[o].created : o \in Offers} \cup {offer[o].updated : o \in Offers} \cup {0})

\* versions_for, with the fingerprint it got.
Versions(fingerprint) == [directory |-> fingerprint, log |-> logWanted, drops |-> DropsVersion]

\* A heartbeat reply or an answer of wait_for_change reaches the client, which
\* fetches the keys whose version differs.  Without a difference the long
\* poll looks again two seconds later; an answer that is lost changes nothing.
Answered(fingerprint) ==
  LET versions == Versions(fingerprint)
      changed == {k \in SyncKeys : known[k] # versions[k]}
  IN  /\ changed # {}
      /\ known' = versions
      /\ fetching' = fetching \cup (changed \ {"log"})
      /\ UNCHANGED <<serverVars, filling, view, outbox, clientStarts>>

\* A cached fingerprint is served while it is fresh ...
AnswerCached ==
  /\ cache.fresh
  /\ Answered(cache.value)
  /\ UNCHANGED cache

\* ... otherwise the request computes and stores it.
AnswerComputed ==
  /\ ~cache.fresh
  /\ cache' = [value |-> directory, fresh |-> TRUE]
  /\ Answered(directory)

\* _directory_fingerprint in the thread of a request that has nothing to tell
\* this client: the query ...
FillQuery(f) ==
  /\ ~cache.fresh /\ filling[f] = Unknown
  /\ filling' = [filling EXCEPT ![f] = directory]
  /\ UNCHANGED <<serverVars, cache, known, fetching, view, outbox, clientStarts>>

\* ... and the assignment, which may overwrite a newer value.
FillStore(f) ==
  /\ filling[f] # Unknown
  /\ cache' = [value |-> filling[f], fresh |-> TRUE]
  /\ filling' = [filling EXCEPT ![f] = Unknown]
  /\ UNCHANGED <<serverVars, known, fetching, view, outbox, clientStarts>>

\* A fingerprint that stays once it is there.
CacheStays == FALSE /\ UNCHANGED syncVars

\* DIRECTORY_FINGERPRINT_TTL passes.
CacheAges ==
  /\ cache.fresh
  /\ cache' = [cache EXCEPT !.fresh = FALSE]
  /\ UNCHANGED <<serverVars, filling, known, fetching, view, outbox, clientStarts>>

-----------------------------------------------------------------------------
\* The client fetches a key: it gets what is there by then.
FetchKey(k) ==
  /\ k \in fetching
  /\ view' = [view EXCEPT ![k] = Actual[k]]
  /\ fetching' = fetching \ {k}
  /\ UNCHANGED <<serverVars, cache, filling, known, outbox, clientStarts>>

\* It packs a log: once an hour, or because the last answer asks for one.
CollectLog ==
  /\ ~outbox
  /\ outbox' = TRUE
  /\ UNCHANGED <<serverVars, cache, filling, known, fetching, view, clientStarts>>

\* A log arrives and the request for one stays.
UploadKeepsRequest ==
  /\ outbox
  /\ outbox' = FALSE
  /\ UNCHANGED <<serverVars, cache, filling, known, fetching, view, clientStarts>>

\* upload_log: any log clears the request.
UploadLog ==
  /\ outbox
  /\ outbox' = FALSE
  /\ logWanted' = FALSE
  /\ UNCHANGED <<directory, dropRowVars, syncChanges, historyVars, cache, filling, known, fetching, view,
                 clientStarts>>

\* The client restarts without the versions it held: wait_for_change answers
\* a call that knows nothing at once.
ClientRestarts ==
  /\ clientStarts < MaxClientStarts
  /\ clientStarts' = clientStarts + 1
  /\ known' = [k \in SyncKeys |-> Unknown]
  /\ view' = [directory |-> Unknown, drops |-> {}]
  /\ fetching' = {} /\ outbox' = FALSE
  /\ UNCHANGED <<serverVars, cache, filling>>

-----------------------------------------------------------------------------
clientVars == <<cache, filling, known, fetching, view, outbox, clientStarts>>

\* A key has changed and has this version now.
Changed(k, version) ==
  /\ seen' = [seen EXCEPT ![k] = @ \cup {version}]
  /\ recurred' = IF version \in seen[k] THEN recurred \cup {k} ELSE recurred

\* Anything /v1/directory shows changes, possibly back to what it was.
DirectoryChanges(content) ==
  /\ syncChanges < MaxSyncChanges /\ content # directory
  /\ syncChanges' = syncChanges + 1
  /\ directory' = content
  /\ Changed("directory", content)
  /\ UNCHANGED <<logWanted, dropRowVars, clientVars>>

\* request_device_log, request_all_device_logs.
RequestLog ==
  /\ logWanted' = TRUE
  /\ UNCHANGED <<directory, dropRowVars, syncChanges, historyVars, clientVars>>

\* A transaction of RustDrop begins: this is the now() of what it writes, in the
\* millisecond of the one before or later.
DropBegins ==
  /\ syncChanges < MaxSyncChanges
  /\ syncChanges' = syncChanges + 1
  /\ \E t \in {syncClock, syncClock + 1} \ {0} :
       /\ syncClock' = t
       /\ writing' = writing \cup {[id |-> syncChanges + 1, at |-> t]}
  /\ UNCHANGED <<directory, logWanted, offer, historyVars, clientVars>>

\* It has inserted or updated a row of the device and commits, possibly after
\* one that began later.
DropWritten(o, w) ==
  /\ w \in writing
  /\ writing' = writing \ {w}
  /\ offer' = [offer EXCEPT ![o] = [by |-> w.id, updated |-> w.at,
                                    created |-> IF offer[o] = NoOffer THEN w.at ELSE offer[o].created]]
  /\ Changed("drops", DropsVersion')
  /\ UNCHANGED <<directory, logWanted, syncClock, syncChanges, clientVars>>

\* RustDrop deletes a row of the device: declined or swept.
DropRemoved(o) ==
  /\ offer[o] # NoOffer
  /\ offer' = [offer EXCEPT ![o] = NoOffer]
  /\ Changed("drops", DropsVersion')
  /\ UNCHANGED <<directory, logWanted, writing, syncClock, syncChanges, clientVars>>

Told == AnswerCached \/ AnswerComputed

SyncNext ==
  \/ Told \/ (\E k \in Fetched : FetchKey(k))
  \/ (\E f \in Fillers : FillQuery(f) \/ FillStore(f))
  \/ CacheAges
  \/ CollectLog \/ UploadLog \/ ClientRestarts
  \/ (\E content \in Contents : DirectoryChanges(content))
  \/ RequestLog \/ DropBegins
  \/ (\E o \in Offers : DropRemoved(o) \/ \E w \in writing : DropWritten(o, w))

SyncSpec == SyncInit /\ [][SyncNext]_syncVars

\* The client keeps calling (heartbeat and long poll), fetches what it was told
\* of and sends a log that it is asked for; other requests end; time passes.
SyncFairness ==
  /\ WF_syncVars(Told)
  /\ \A k \in Fetched : WF_syncVars(FetchKey(k))
  /\ WF_syncVars(known.log = TRUE /\ CollectLog) /\ WF_syncVars(UploadLog)
  /\ \A f \in Fillers : WF_syncVars(FillStore(f))
  /\ WF_syncVars(CacheAges)

-----------------------------------------------------------------------------
\* "This alone catches every change": whatever the cache held, whichever
\* request overwrote it and however often the client started, it ends up
\* showing the directory and the drops that are there.  Excepted is what had a
\* change that did not lead to a new version: a directory that changed back
\* (the client may hold that version and have fetched something in between), a
\* deleted drop, writes in the same millisecond or committed out of order.
SyncConverges ==
  <>[](\A k \in Fetched : view[k] = Actual[k] \/ k \in recurred)

\* "A missed/dropped heartbeat can't lose the request": a log that is asked
\* for arrives, also when it is asked for while the answer to an earlier
\* request is on its way or the client restarts.
LogArrives == logWanted ~> ~logWanted
=============================================================================
