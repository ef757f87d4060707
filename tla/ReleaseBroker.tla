---------------------------- MODULE ReleaseBroker ----------------------------
(***************************************************************************)
(* How the control plane hands out the installers of one beta version from *)
(* a private GitHub repository (releaseAsset, githubRelease and            *)
(* downloadGitHubAsset, control-plane/src/index.ts).  What GitHub says of  *)
(* the release is cached; requests wait for GitHub, while the operator     *)
(* uploads, replaces and withdraws.  An asset's number is its identity and *)
(* its content.  Requests overlap here, which is more than the code does:  *)
(* Registry.fetch lets one in at a time (507-517), and only the content of *)
(* an answer goes out beside the next request.                             *)
(***************************************************************************)
EXTENDS Naturals

CONSTANTS
    Files, Manifests,\* the names that allowedReleaseAsset knows; latest.json among them
    Downloads,       \* bound: the requests under way at one time
    MaxAssets,       \* bound: the assets ever uploaded
    CacheTime,       \* 300 seconds
    MaxClock,        \* bound: how far the clock runs
    MaxRedirects,    \* MAX_RELEASE_REDIRECTS
    NoAsset

ASSUME BrokerAssumption ==
    /\ Manifests \subseteq Files /\ NoAsset \notin Nat
    /\ {MaxAssets, CacheTime, MaxClock, MaxRedirects} \subseteq Nat

VARIABLES
    clock,
    release,     \* GitHub: is it a draft, and the asset of each file
    uploads,     \* how many assets were uploaded
    finished,    \* the assets whose upload is complete
    tooLarge,    \* those above MAX_UPDATER_BYTES or MAX_MANIFEST_BYTES
    published,   \* history: when an asset was last a complete one of a published release
    releaseCache,\* the answer for the version and the time it expires, or NoAsset
    download     \* each request: its file, the step it is at, when it came, what it found

brokerVars == <<clock, release, uploads, finished, tooLarge, published, releaseCache, download>>
githubVars == <<release, uploads, finished, tooLarge>>

NoDownload == [pc |-> "idle", file |-> NoAsset, came |-> 0, asset |-> NoAsset, redirects |-> 0]
Assets == 1..MaxAssets

BrokerInit ==
    /\ clock = 0 /\ uploads = 0 /\ finished = {} /\ tooLarge = {}
    /\ release = [draft |-> TRUE, assets |-> [f \in Files |-> NoAsset]]
    /\ published = [a \in Assets |-> NoAsset]
    /\ releaseCache = NoAsset /\ download = [d \in Downloads |-> NoDownload]

(***************************************************************************)
(* The repository.                                                         *)
(***************************************************************************)
Listed(a) == ~release.draft /\ a \in finished /\ \E f \in Files : release.assets[f] = a
\* Before anything changes, what is public is noted with the time.
Note == published' = [a \in Assets |-> IF Listed(a) THEN clock ELSE published[a]]

StartUpload(f, large) ==
    /\ uploads < MaxAssets /\ uploads' = uploads + 1
    /\ release' = [release EXCEPT !.assets[f] = uploads + 1]
    /\ tooLarge' = IF large THEN tooLarge \cup {uploads + 1} ELSE tooLarge
    /\ Note /\ UNCHANGED <<clock, finished, releaseCache, download>>

FinishUpload(a) ==
    /\ a \in 1..uploads \ finished /\ finished' = finished \cup {a}
    /\ Note /\ UNCHANGED <<clock, release, uploads, tooLarge, releaseCache, download>>

Publish ==
    /\ release' = [release EXCEPT !.draft = ~@]
    /\ Note /\ UNCHANGED <<clock, uploads, finished, tooLarge, releaseCache, download>>

Pass ==
    /\ clock < MaxClock /\ clock' = clock + 1
    /\ Note /\ UNCHANGED <<githubVars, releaseCache, download>>

(***************************************************************************)
(* The broker: a request goes on when its answer comes.                    *)
(***************************************************************************)
Goes(d, fields) == download' = [download EXCEPT ![d] = fields]
Unavailable(d) == Goes(d, NoDownload)

\* The one complete asset of the name, of a published release, that is not too large.
Fit(found, complete, f) ==
    IF found.draft \/ found.assets[f] \notin complete \ tooLarge THEN NoAsset ELSE found.assets[f]

Chosen(d, request, answer) ==
    LET asset == Fit(answer, answer.complete, request.file)
    IN  Goes(d, IF asset = NoAsset THEN NoDownload
                ELSE [request EXCEPT !.pc = "fetch", !.asset = asset])

\* Mutant: a cached release does not expire.
CachedRelease_Forever == releaseCache # NoAsset

CachedRelease == releaseCache # NoAsset /\ releaseCache.expires >= clock

ReleaseAsset(d, f) ==
    /\ download[d].pc = "idle"
    /\ LET request == [NoDownload EXCEPT !.pc = "release", !.file = f, !.came = clock]
       IN  IF CachedRelease THEN Chosen(d, request, releaseCache) ELSE Goes(d, request)
    /\ UNCHANGED <<clock, githubVars, published, releaseCache>>

\* Whatever GitHub answers is kept, from when the request came.
GithubRelease(d) ==
    /\ download[d].pc = "release"
    /\ LET answer == [draft |-> release.draft, assets |-> release.assets, complete |-> finished,
                      expires |-> download[d].came + CacheTime]
       IN  releaseCache' = answer /\ Chosen(d, download[d], answer)
    /\ UNCHANGED <<clock, githubVars, published>>

\* Only to githubusercontent.com, and not too often.
Redirect(d, trusted) ==
    /\ download[d].pc = "fetch"
    /\ IF trusted /\ download[d].redirects < MaxRedirects
       THEN Goes(d, [download[d] EXCEPT !.redirects = @ + 1]) ELSE Unavailable(d)
    /\ UNCHANGED <<clock, githubVars, published, releaseCache>>

\* Gone: another asset has its name.
DownloadAsset(d) ==
    /\ download[d].pc = "fetch"
    /\ IF \E f \in Files : release.assets[f] = download[d].asset
       THEN Goes(d, [download[d] EXCEPT !.pc = "stream"]) ELSE Unavailable(d)
    /\ UNCHANGED <<clock, githubVars, published, releaseCache>>

Served(d) == Goes(d, [download[d] EXCEPT !.pc = "served"])

\* exactLengthStream: a body that is short or long breaks off.
StreamAsset(d, exact) ==
    /\ download[d].pc = "stream" /\ download[d].file \notin Manifests
    /\ IF exact THEN Served(d) ELSE Unavailable(d)
    /\ UNCHANGED <<clock, githubVars, published, releaseCache>>

\* It is read whole, and must be of this version and name this broker's files.
ValidManifest(d, valid) ==
    /\ download[d].pc = "stream" /\ download[d].file \in Manifests
    /\ IF valid THEN Served(d) ELSE Unavailable(d)
    /\ UNCHANGED <<clock, githubVars, published, releaseCache>>

\* GitHub does not answer, or the reader has what it came for.
Ends(d) ==
    /\ download[d].pc # "idle" /\ Unavailable(d)
    /\ UNCHANGED <<clock, githubVars, published, releaseCache>>

BrokerNext ==
    \/ \E f \in Files, large \in BOOLEAN : StartUpload(f, large)
    \/ \E a \in Assets : FinishUpload(a)
    \/ Publish \/ Pass
    \/ \E d \in Downloads :
        \/ GithubRelease(d) \/ DownloadAsset(d) \/ Ends(d)
        \/ \E f \in Files : ReleaseAsset(d, f)
        \/ \E yes \in BOOLEAN : Redirect(d, yes) \/ StreamAsset(d, yes) \/ ValidManifest(d, yes)

BrokerSpec == BrokerInit /\ [][BrokerNext]_brokerVars

(***************************************************************************)
(* Properties.                                                             *)
(***************************************************************************)
\* What is withdrawn or replaced is not handed out for long, whichever answers are late
\* and whichever of two overlapping requests fills the cache last: what is served was, complete
\* and not too large, an asset of the published release after the request came or at most
\* the life of a cache entry earlier (index.ts:826-850, 907-919).
WithdrawnIsNotServed ==
    \A d \in Downloads : download[d].pc = "served" =>
        LET asset == download[d].asset IN
        /\ asset \in finished \ tooLarge
        /\ Listed(asset) \/ (published[asset] # NoAsset
                             /\ published[asset] + CacheTime >= download[d].came)
=============================================================================
