---------------------------- MODULE ArtifactStore ----------------------------
(***************************************************************************)
(* Artifact files: their database rows (backend/services/artifact_service, *)
(* the upload routes of backend/api/routes/artifacts and ai_chats) and     *)
(* their bodies in the blob store (backend/services/artifact_storage and   *)
(* backend/adapters/blob_store).  The two are written by one request but   *)
(* not in one transaction: the body is stored before the row is flushed    *)
(* and removed before the row's deletion commits, and either may fail, so  *)
(* bodies and rows can part.  Signed URLs outlive the request that minted  *)
(* them.                                                                   *)
(*                                                                         *)
(* All rows belong to the one local user and org, so the owner recorded in *)
(* a body's metadata always matches; contents are sizes.                   *)
(***************************************************************************)
EXTENDS Integers, FiniteSets, FiniteSetsExt

CONSTANTS
    Artifacts,   \* artifact ids, one upload each
    ChatFiles,   \* the ones uploaded for a chat turn
    Deleters,    \* concurrent DELETE requests
    Sizes,       \* sizes of the uploads
    MaxFile,     \* max_file_bytes
    MaxTotal,    \* max_total_bytes
    UrlTTL,      \* KEMORY_ARTIFACT_SIGNED_URL_TTL
    MaxNow,      \* bound on the clock
    Backend,     \* KEMORY_ARTIFACT_BACKEND: "local_fs" or "core_backend"
    Faults,      \* whether commits, storage calls and the process fail
    None

ASSUME ArtifactAssumption ==
    /\ ChatFiles \subseteq Artifacts /\ IsFiniteSet(Artifacts)
    /\ Sizes \subseteq Nat \ {0}
    /\ {MaxFile, MaxTotal, UrlTTL, MaxNow} \subseteq Nat
    /\ Backend \in {"local_fs", "core_backend"}
    /\ Faults \in BOOLEAN
    /\ None \notin Artifacts

VARIABLES
    body,    \* bytes stored under each artifact's key, 0 for none
    meta,    \* whether the metadata beside the body exists
    row,     \* the AIChatArtifact row: none, flushed, live or gone
    chat,    \* whether the chat of the chat files is live
    del,     \* the artifact each DELETE request is working on
    urls,    \* signed URLs handed out, with their expiry
    now,     \* the clock
    parted,  \* history: artifacts whose row or body some failure left behind
    removed  \* history: artifacts whose DELETE was answered 204

vars == <<body, meta, row, chat, del, urls, now, parted, removed>>

Urls == [artifact : Artifacts, exp : 0..MaxNow + UrlTTL]

TypeOK ==
    /\ body \in [Artifacts -> Sizes \cup {0}]
    /\ meta \in [Artifacts -> BOOLEAN]
    /\ row \in [Artifacts -> {"none", "flushed", "live", "gone"}]
    /\ chat \in BOOLEAN
    /\ del \in [Deleters -> Artifacts \cup {None}]
    /\ urls \subseteq Urls
    /\ now \in 0..MaxNow
    /\ parted \subseteq Artifacts /\ removed \subseteq Artifacts

Init ==
    /\ body = [a \in Artifacts |-> 0]
    /\ meta = [a \in Artifacts |-> FALSE]
    /\ row = [a \in Artifacts |-> "none"]
    /\ chat = TRUE
    /\ del = [d \in Deleters |-> None]
    /\ urls = {}
    /\ now = 0
    /\ parted = {} /\ removed = {}

-----------------------------------------------------------------------------
(* The blob store                                                          *)

\* _total_size_bytes walks the directory, so it counts bodies without rows.
TotalSize == MapThenSumSet(LAMBDA a : body[a], Artifacts)

MutFits(size) == size <= MaxFile /\ TotalSize <= MaxTotal

\* put_bytes; keys are fresh, so no body is replaced.
Fits(size) == size <= MaxFile /\ TotalSize + size <= MaxTotal

\* Which uploads the backend accepts: Core_Backend keeps its own limits.
Accepts(size) == Backend = "local_fs" => Fits(size)

\* get_stream: the body and its metadata are both there.
Stored(a) == body[a] > 0 /\ meta[a]

MutVerify(u) == TRUE

MutVerifyStrict(u) == u.exp > now

\* verify_token: an expiry in the past is refused, and no row is consulted.
Verify(u) == u.exp >= now

\* build_blob_url_for_row mints a LocalFS token whenever KMV_BLOB_BACKEND is
\* local_fs, and the token endpoint reads the local store: it does not know
\* the keys of Core_Backend.
Streams(u) == Verify(u) /\ Backend = "local_fs" /\ Stored(u.artifact)

-----------------------------------------------------------------------------
(* Upload                                                                  *)

Fresh(a) == row[a] = "none" /\ body[a] = 0 /\ a \notin parted

\* upload_artifact_endpoint for a namespace or a memory, and the upload route
\* of a chat: the body is stored, then the row flushed.
UploadPut(a, size) ==
    /\ Fresh(a)
    /\ a \in ChatFiles => chat
    /\ Accepts(size)
    /\ body' = [body EXCEPT ![a] = size]
    /\ meta' = [meta EXCEPT ![a] = TRUE]
    /\ row' = [row EXCEPT ![a] = "flushed"]
    /\ UNCHANGED <<chat, del, urls, now, parted, removed>>

\* The chat route parses artifact_metadata only after the body was stored.
UploadBadMetadata(a, size) ==
    /\ Fresh(a) /\ a \in ChatFiles /\ chat
    /\ Accepts(size)
    /\ body' = [body EXCEPT ![a] = size]
    /\ meta' = [meta EXCEPT ![a] = TRUE]
    /\ parted' = parted \cup {a}
    /\ UNCHANGED <<row, chat, del, urls, now, removed>>

\* The process dies between write_bytes and the metadata's write_text.
UploadTorn(a, size) ==
    /\ Faults /\ Backend = "local_fs"
    /\ Fresh(a) /\ Accepts(size)
    /\ body' = [body EXCEPT ![a] = size]
    /\ parted' = parted \cup {a}
    /\ UNCHANGED <<meta, row, chat, del, urls, now, removed>>

Url(a) == [artifact |-> a, exp |-> now + UrlTTL]

\* get_db commits; the answer carries a signed URL.
UploadCommit(a) ==
    /\ row[a] = "flushed"
    /\ row' = [row EXCEPT ![a] = "live"]
    /\ urls' = urls \cup {Url(a)}
    /\ UNCHANGED <<body, meta, chat, del, now, parted, removed>>

\* The request is rolled back and the body stays.
UploadRollback(a) ==
    /\ Faults /\ row[a] = "flushed"
    /\ row' = [row EXCEPT ![a] = "none"]
    /\ parted' = parted \cup {a}
    /\ UNCHANGED <<body, meta, chat, del, urls, now, removed>>

-----------------------------------------------------------------------------
(* Reads and the clock                                                     *)

\* Every metadata read or listing refreshes the URL.
GetArtifact(a) ==
    /\ row[a] = "live"
    /\ urls' = urls \cup {Url(a)}
    /\ UNCHANGED <<body, meta, row, chat, del, now, parted, removed>>

Tick ==
    /\ now < MaxNow
    /\ now' = now + 1
    /\ UNCHANGED <<body, meta, row, chat, del, urls, parted, removed>>

-----------------------------------------------------------------------------
(* Delete                                                                  *)

MutUnlink(a) == body' = body /\ meta' = [meta EXCEPT ![a] = FALSE]

\* delete_key removes the body, then the metadata.
Unlink(a) ==
    /\ body' = [body EXCEPT ![a] = 0]
    /\ meta' = [meta EXCEPT ![a] = FALSE]

\* delete_artifact_row: the row is read and the body removed with no await
\* between; a body already removed by a racing DELETE is only logged.
DeleteStart(d, a) ==
    /\ del[d] = None /\ row[a] = "live"
    /\ Unlink(a)
    /\ del' = [del EXCEPT ![d] = a]
    /\ UNCHANGED <<row, chat, urls, now, parted, removed>>

\* The removal of the body is best effort: its failure is logged.
DeleteStartFails(d, a) ==
    /\ Faults /\ del[d] = None /\ row[a] = "live"
    /\ del' = [del EXCEPT ![d] = a]
    /\ parted' = parted \cup {a}
    /\ UNCHANGED <<body, meta, row, chat, urls, now, removed>>

DeleteCommit(d) ==
    /\ del[d] # None
    /\ row' = [row EXCEPT ![del[d]] = "gone"]
    /\ removed' = removed \cup {del[d]}
    /\ del' = [del EXCEPT ![d] = None]
    /\ UNCHANGED <<body, meta, chat, urls, now, parted>>

\* The row survives a failed commit, its body does not.
DeleteRollback(d) ==
    /\ Faults /\ del[d] # None
    /\ parted' = parted \cup {del[d]}
    /\ del' = [del EXCEPT ![d] = None]
    /\ UNCHANGED <<body, meta, row, chat, urls, now, removed>>

\* A push of the chat replaces the artifact rows of the turn
\* (_replace_artifacts_for_turn) and leaves the stored bodies alone.
PushTurn ==
    /\ chat /\ \E a \in ChatFiles : row[a] = "live"
    /\ row' = [a \in Artifacts |-> IF a \in ChatFiles /\ row[a] = "live"
                                   THEN "gone" ELSE row[a]]
    /\ parted' = parted \cup {a \in ChatFiles : row[a] = "live"}
    /\ UNCHANGED <<body, meta, chat, del, urls, now, removed>>

\* soft_delete_chat: the artifacts and their bodies stay.
SoftDeleteChat ==
    /\ chat
    /\ chat' = FALSE
    /\ UNCHANGED <<body, meta, row, del, urls, now, parted, removed>>

-----------------------------------------------------------------------------

Next ==
    \/ \E a \in Artifacts :
          \/ \E size \in Sizes :
                UploadPut(a, size) \/ UploadBadMetadata(a, size) \/ UploadTorn(a, size)
          \/ UploadCommit(a) \/ UploadRollback(a) \/ GetArtifact(a)
          \/ \E d \in Deleters : DeleteStart(d, a) \/ DeleteStartFails(d, a)
    \/ \E d \in Deleters : DeleteCommit(d) \/ DeleteRollback(d)
    \/ PushTurn \/ SoftDeleteChat \/ Tick

Spec == Init /\ [][Next]_vars

-----------------------------------------------------------------------------
(* Properties                                                              *)

Deleting(a) == \E d \in Deleters : del[d] = a

\* "exceeds local_fs total limit": the store never holds more than
\* max_total_bytes, the bodies that lost their rows included.
QuotaHeld == Backend = "local_fs" => TotalSize <= MaxTotal

\* "a short-lived signed content_url that the browser can use directly": a
\* URL that has not expired streams the body of a live artifact, unless a
\* failure parted row and body or a DELETE is under way.
LiveUrlStreams ==
    \A u \in urls :
        row[u.artifact] = "live" /\ u.exp >= now /\ u.artifact \notin parted
           /\ ~Deleting(u.artifact) => Streams(u)

\* "Permanently delete an artifact row and its stored binary body": once a
\* DELETE was answered, no URL handed out earlier streams the body, unless
\* the store failed to remove it; then only until the URL expires.
DeletedIsGone ==
    \A u \in urls :
        u.artifact \in removed /\ Streams(u) => u.artifact \in parted /\ u.exp >= now

\* Every stored body is reachable through a row or an upload in progress,
\* unless one of the known failures left it behind: nothing else consumes
\* the quota.
BodiesAccounted ==
    \A a \in Artifacts :
        body[a] > 0 => row[a] \in {"flushed", "live"} \/ a \in parted

\* A DELETE works on a row that was live when it was read, and an answered
\* one leaves no row.
DeletesKnown ==
    \A a \in Artifacts :
        /\ Deleting(a) => row[a] \in {"live", "gone"}
        /\ a \in removed => row[a] = "gone"

\* Unless a failure parted them, the body of a flushed or live row is stored
\* until a DELETE reads the row, and is gone from then on.
BodiesFollowRows ==
    \A a \in Artifacts \ parted :
        /\ row[a] \in {"flushed", "live"} /\ ~Deleting(a) => Stored(a)
        /\ Deleting(a) => body[a] = 0

\* The state of uploads, rows, bodies and deletes: well typed, and accounted
\* for.
ArtifactInv == TypeOK /\ BodiesAccounted /\ DeletesKnown /\ BodiesFollowRows
=============================================================================
