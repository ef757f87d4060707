---------------------- MODULE ControlPlaneParts_proofs ----------------------
(***************************************************************************)
(* The parts of the control plane beside the registry, for any number of   *)
(* sites, requests, sources and bundles and whatever the limits: the       *)
(* release broker, the operator's desk, the quotas and the store of        *)
(* diagnostic bundles.                                                     *)
(***************************************************************************)
EXTENDS MCControlPlane, FiniteSetTheorems, TLAPS

-----------------------------------------------------------------------------
(* The release broker (ReleaseBroker): the inductive invariant.             *)

BrokerAnswers == [draft : BOOLEAN, assets : [Files -> Assets \cup {NoAsset}],
            complete : SUBSET Assets, expires : Nat]
Requests == [pc : {"idle", "release", "fetch", "stream", "served"}, file : Files \cup {NoAsset},
             came : Nat, asset : Assets \cup {NoAsset}, redirects : Nat]

\* What GitHub has; assets are numbered as they are uploaded.
GithubTypeOK ==
    /\ release \in [draft : BOOLEAN, assets : [Files -> Assets \cup {NoAsset}]]
    /\ uploads \in 0..MaxAssets /\ finished \subseteq 1..uploads /\ tooLarge \subseteq 1..uploads
    /\ clock \in Nat /\ published \in [Assets -> Nat \cup {NoAsset}]
BrokerTypeOK ==
    /\ GithubTypeOK
    /\ releaseCache \in BrokerAnswers \cup {NoAsset}
    /\ download \in [Downloads -> Requests]

\* An asset is public, or was not so long before.
LatelyPublic(a, since) ==
    Listed(a) \/ (published[a] # NoAsset /\ published[a] + CacheTime >= since)

\* The cache names only what was public until a cache's life before it expires, and is no
\* older than the latest answer.
CacheInv ==
    releaseCache # NoAsset =>
        /\ releaseCache.complete \subseteq finished
        /\ releaseCache.expires <= clock + CacheTime
        /\ ~releaseCache.draft => \A f \in Files :
              releaseCache.assets[f] \in releaseCache.complete =>
                  LatelyPublic(releaseCache.assets[f], releaseCache.expires)

\* So does a request whose asset has been chosen.
DownloadInv ==
    \A d \in Downloads :
        /\ download[d].came <= clock
        /\ download[d].pc = "release" => download[d].file \in Files
        /\ download[d].pc \in {"fetch", "stream", "served"} =>
              /\ download[d].asset \in finished \ tooLarge
              /\ LatelyPublic(download[d].asset, download[d].came)

BrokerInv == BrokerTypeOK /\ CacheInv /\ DownloadInv

-----------------------------------------------------------------------------
(* What time and the operator change.                                       *)

\* What the broker does leaves GitHub and the clock alone.
LEMMA RecentStays ==
  ASSUME UNCHANGED <<clock, githubVars, published>>, NEW a, NEW since, LatelyPublic(a, since)
  PROVE  LatelyPublic(a, since)'
BY DEF LatelyPublic, Listed, githubVars

\* What was recent stays so, for whoever came before now: when it ceases to be public, that
\* is noted with the time.
LEMMA RecentIsNoted ==
  ASSUME BrokerInv, Note, NEW a \in Assets, NEW since \in Nat, since <= clock + CacheTime,
         LatelyPublic(a, since)
  PROVE  LatelyPublic(a, since)'
<1>1. /\ published \in [Assets -> Nat \cup {NoAsset}] /\ clock \in Nat /\ CacheTime \in Nat
      /\ NoAsset \notin Nat
  BY BrokerAssumption DEF BrokerInv, BrokerTypeOK, GithubTypeOK
<1>2. published' = [b \in Assets |-> IF Listed(b) THEN clock ELSE published[b]]
  BY DEF Note
<1>3. CASE Listed(a)
  <2>1. published'[a] = clock
    BY <1>2, <1>3
  <2>2. QED
    BY <1>1, <2>1 DEF LatelyPublic
<1>4. CASE ~Listed(a)
  <2>1. published'[a] = published[a]
    BY <1>2, <1>4
  <2>2. QED
    BY <1>4, <2>1 DEF LatelyPublic
<1>5. QED
  BY <1>3, <1>4

\* Time and the operator leave what the broker has learned in force.
LEMMA GithubStep ==
  ASSUME BrokerInv, GithubTypeOK', Note, UNCHANGED <<releaseCache, download>>,
         clock <= clock', finished \subseteq finished', (tooLarge' \ tooLarge) \cap finished = {}
  PROVE  BrokerInv'
<1>1. /\ clock \in Nat /\ clock' \in Nat /\ CacheTime \in Nat /\ NoAsset \notin Nat
      /\ finished \subseteq Assets
  BY BrokerAssumption DEF BrokerInv, BrokerTypeOK, GithubTypeOK, Assets
<1>2. BrokerTypeOK'
  BY DEF BrokerInv, BrokerTypeOK
<1>3. CacheInv'
  <2>1. SUFFICES ASSUME releaseCache # NoAsset
                 PROVE  CacheInv'
    BY DEF CacheInv
  <2>2. releaseCache \in BrokerAnswers
    BY <2>1 DEF BrokerInv, BrokerTypeOK
  <2>3. /\ releaseCache.complete \subseteq finished /\ releaseCache.expires \in Nat
        /\ releaseCache.expires <= clock + CacheTime
    BY <2>1, <2>2 DEF BrokerInv, CacheInv, BrokerAnswers
  <2>4. releaseCache.expires <= clock' + CacheTime
    BY <1>1, <2>3
  <2>5. ASSUME ~releaseCache.draft, NEW f \in Files,
               releaseCache.assets[f] \in releaseCache.complete
        PROVE  LatelyPublic(releaseCache.assets[f], releaseCache.expires)'
    <3>1. LatelyPublic(releaseCache.assets[f], releaseCache.expires)
      BY <2>1, <2>5 DEF BrokerInv, CacheInv
    <3>2. releaseCache.assets[f] \in Assets
      BY <1>1, <2>3, <2>5
    <3>3. QED
      BY <2>3, <3>1, <3>2, RecentIsNoted
  <2>6. QED
    BY <2>3, <2>4, <2>5 DEF CacheInv
<1>4. DownloadInv'
  <2>1. ASSUME NEW d \in Downloads
        PROVE  /\ download[d].came <= clock'
               /\ download[d].pc = "release" => download[d].file \in Files
               /\ download[d].pc \in {"fetch", "stream", "served"} =>
                     /\ download[d].asset \in finished' \ tooLarge'
                     /\ LatelyPublic(download[d].asset, download[d].came)'
    <3>1. download[d].came \in Nat /\ download[d].came <= clock
      BY DEF BrokerInv, BrokerTypeOK, Requests, DownloadInv
    <3>2. ASSUME download[d].pc \in {"fetch", "stream", "served"}
          PROVE  /\ download[d].asset \in finished' \ tooLarge'
                 /\ LatelyPublic(download[d].asset, download[d].came)'
      <4>1. download[d].asset \in finished \ tooLarge /\ LatelyPublic(download[d].asset, download[d].came)
        BY <3>2 DEF BrokerInv, DownloadInv
      <4>2. download[d].came <= clock + CacheTime /\ download[d].asset \in Assets
        BY <1>1, <3>1, <4>1
      <4>3. LatelyPublic(download[d].asset, download[d].came)'
        BY <3>1, <4>1, <4>2, RecentIsNoted
      <4>4. QED
        BY <4>1, <4>3
    <3>3. QED
      BY <1>1, <3>1, <3>2 DEF BrokerInv, DownloadInv
  <2>2. QED
    BY <2>1 DEF DownloadInv
<1>5. QED
  BY <1>2, <1>3, <1>4 DEF BrokerInv

-----------------------------------------------------------------------------
(* What the broker's steps change.                                          *)

\* A request is well and truly what it is said to be.
Sound(r) ==
    /\ r \in Requests /\ r.came <= clock
    /\ r.pc = "release" => r.file \in Files
    /\ r.pc \in {"fetch", "stream", "served"} =>
          r.asset \in finished \ tooLarge /\ LatelyPublic(r.asset, r.came)

\* The request of nobody is.
LEMMA NoDownloadIsSound == ASSUME BrokerInv PROVE Sound(NoDownload)
BY DEF Sound, NoDownload, Requests, BrokerInv, BrokerTypeOK, GithubTypeOK

\* So is every one that is kept.
LEMMA DownloadIsSound == ASSUME BrokerInv, NEW d \in Downloads PROVE Sound(download[d])
BY DEF Sound, BrokerInv, BrokerTypeOK, DownloadInv

\* One request goes on, and the cache is left alone.
LEMMA RequestGoesOn ==
  ASSUME BrokerInv, UNCHANGED <<clock, githubVars, published>>, BrokerTypeOK', CacheInv',
         NEW d \in Downloads, NEW r, Sound(r), Goes(d, r)
  PROVE  BrokerInv'
<1>1. download' = [download EXCEPT ![d] = r] /\ download \in [Downloads -> Requests]
  BY DEF Goes, BrokerInv, BrokerTypeOK
<1>2. ASSUME NEW e \in Downloads
      PROVE  /\ download'[e].came <= clock'
             /\ download'[e].pc = "release" => download'[e].file \in Files
             /\ download'[e].pc \in {"fetch", "stream", "served"} =>
                   /\ download'[e].asset \in finished' \ tooLarge'
                   /\ LatelyPublic(download[e].asset, download[e].came)'
  <2>1. Sound(download'[e])
    BY <1>1, DownloadIsSound
  <2>2. download'[e].pc \in {"fetch", "stream", "served"} =>
            LatelyPublic(download[e].asset, download[e].came)'
    <3>1. ASSUME NEW a, NEW since PROVE LatelyPublic(a, since) => (LatelyPublic(a, since))'
      BY RecentStays
    <3>2. QED
      BY <2>1, <3>1 DEF Sound, LatelyPublic, Listed, githubVars
  <2>3. QED
    BY <2>1, <2>2 DEF Sound, githubVars
<1>3. DownloadInv'
  BY <1>2 DEF DownloadInv
<1>4. QED
  BY <1>3 DEF BrokerInv

\* The types, when one request goes on.
LEMMA RequestTypes ==
  ASSUME BrokerInv, UNCHANGED <<clock, githubVars, published, releaseCache>>,
         NEW d \in Downloads, NEW r \in Requests, Goes(d, r)
  PROVE  BrokerTypeOK'
BY DEF BrokerInv, BrokerTypeOK, GithubTypeOK, githubVars, Goes

\* The cache, when nobody touches it.
LEMMA CacheStays ==
  ASSUME BrokerInv, UNCHANGED <<clock, githubVars, published, releaseCache>>
  PROVE  CacheInv'
BY DEF BrokerInv, CacheInv, LatelyPublic, Listed, githubVars

\* What one request does that leaves the cache alone.
LEMMA BrokerRequestStep ==
  ASSUME BrokerInv, UNCHANGED <<clock, githubVars, published, releaseCache>>,
         NEW d \in Downloads, NEW r, Sound(r), Goes(d, r)
  PROVE  BrokerInv'
BY RequestTypes, CacheStays, RequestGoesOn DEF Sound

\* What a request finds in an answer that is in force: an asset that was public, complete
\* and not too large, or nothing.
LEMMA ChosenIsSound ==
  ASSUME BrokerInv, NEW d \in Downloads, NEW answer \in BrokerAnswers,
         NEW request \in Requests, request.file \in Files, request.came <= clock,
         request.pc = "release", answer.complete \subseteq finished, request.came <= answer.expires,
         ~answer.draft => \A f \in Files : answer.assets[f] \in answer.complete =>
             LatelyPublic(answer.assets[f], answer.expires)
  PROVE  LET asset == Fit(answer, answer.complete, request.file)
         IN  Sound(IF asset = NoAsset THEN NoDownload
                   ELSE [request EXCEPT !.pc = "fetch", !.asset = asset])
<1> DEFINE asset == Fit(answer, answer.complete, request.file)
<1>1. CASE asset = NoAsset
  BY <1>1, NoDownloadIsSound
<1>2. CASE asset # NoAsset
  <2>1. /\ ~answer.draft /\ asset = answer.assets[request.file]
        /\ asset \in answer.complete \ tooLarge
    BY <1>2 DEF Fit
  <2>2. LatelyPublic(asset, answer.expires)
    BY <2>1
  <2>3. asset \in Assets /\ CacheTime \in Nat /\ published \in [Assets -> Nat \cup {NoAsset}]
    BY <2>1, BrokerAssumption DEF BrokerInv, BrokerTypeOK, GithubTypeOK, BrokerAnswers
  <2>4. LatelyPublic(asset, request.came)
    BY <2>2, <2>3 DEF LatelyPublic, BrokerAnswers, Requests
  <2>5. HIDE DEF asset
  <2>6. Sound([request EXCEPT !.pc = "fetch", !.asset = asset])
    BY <2>1, <2>3, <2>4 DEF Sound, Requests
  <2>7. QED
    BY <1>2, <2>6 DEF asset
<1>3. QED
  BY <1>1, <1>2

-----------------------------------------------------------------------------
(* Every step keeps the invariant.                                          *)

\* The operator uploads, publishes and withdraws, and time passes.
LEMMA OperatorSteps ==
  ASSUME BrokerInv,
         \/ \E f \in Files, large \in BOOLEAN : StartUpload(f, large)
         \/ \E a \in Assets : FinishUpload(a)
         \/ Publish \/ Pass
  PROVE  BrokerInv'
<1>0. /\ GithubTypeOK /\ MaxAssets \in Nat /\ uploads \in 0..MaxAssets
      /\ finished \subseteq 1..uploads /\ tooLarge \subseteq 1..uploads /\ clock \in Nat
      /\ release \in [draft : BOOLEAN, assets : [Files -> Assets \cup {NoAsset}]]
  BY BrokerAssumption DEF BrokerInv, BrokerTypeOK, GithubTypeOK
<1>1. ASSUME Note PROVE published' \in [Assets -> Nat \cup {NoAsset}]
  BY <1>0, <1>1 DEF Note, GithubTypeOK
<1>2. ASSUME NEW f \in Files, NEW large \in BOOLEAN, StartUpload(f, large)
      PROVE  BrokerInv'
  <2>1. uploads' = uploads + 1 /\ uploads + 1 \in Assets /\ uploads' \in 0..MaxAssets
    BY <1>0, <1>2 DEF StartUpload, Assets
  <2>2. release' \in [draft : BOOLEAN, assets : [Files -> Assets \cup {NoAsset}]]
    BY <1>0, <1>2, <2>1 DEF StartUpload
  <2>3. /\ finished' = finished /\ clock' = clock /\ tooLarge' \ tooLarge \subseteq {uploads + 1}
        /\ Note /\ UNCHANGED <<releaseCache, download>>
    BY <1>2 DEF StartUpload
  <2>4. /\ finished' \subseteq 1..uploads' /\ tooLarge' \subseteq 1..uploads'
        /\ (tooLarge' \ tooLarge) \cap finished = {}
    <3>1. uploads + 1 \notin finished /\ 1..uploads \subseteq 1..uploads + 1
      BY <1>0
    <3>2. tooLarge' \subseteq tooLarge \cup {uploads + 1} /\ uploads + 1 \in 1..uploads + 1
      BY <1>0, <2>3
    <3>3. QED
      BY <1>0, <2>1, <2>3, <3>1, <3>2
  <2>5. GithubTypeOK'
    BY <1>0, <1>1, <2>1, <2>2, <2>3, <2>4 DEF GithubTypeOK, Assets
  <2>6. QED
    BY <1>0, <2>3, <2>4, <2>5, GithubStep
<1>3. ASSUME NEW a \in Assets, FinishUpload(a)
      PROVE  BrokerInv'
  <2>1. /\ finished' = finished \cup {a} /\ a \in 1..uploads
        /\ Note /\ UNCHANGED <<clock, release, uploads, tooLarge, releaseCache, download>>
    BY <1>3 DEF FinishUpload
  <2>2. GithubTypeOK'
    BY <1>0, <1>1, <2>1 DEF GithubTypeOK, Assets
  <2>3. QED
    BY <1>0, <2>1, <2>2, GithubStep
<1>4. ASSUME Publish
      PROVE  BrokerInv'
  <2>1. Note /\ UNCHANGED <<clock, uploads, finished, tooLarge, releaseCache, download>>
    BY <1>4 DEF Publish
  <2>2. release' \in [draft : BOOLEAN, assets : [Files -> Assets \cup {NoAsset}]]
    BY <1>0, <1>4 DEF Publish
  <2>3. GithubTypeOK'
    BY <1>0, <1>1, <2>1, <2>2 DEF GithubTypeOK, Assets
  <2>4. QED
    BY <1>0, <2>1, <2>3, GithubStep
<1>5. ASSUME Pass
      PROVE  BrokerInv'
  <2>1. clock' = clock + 1 /\ Note /\ UNCHANGED <<githubVars, releaseCache, download>>
    BY <1>5 DEF Pass
  <2>2. GithubTypeOK'
    BY <1>0, <1>1, <2>1 DEF GithubTypeOK, Assets, githubVars
  <2>3. QED
    BY <1>0, <2>1, <2>2, GithubStep DEF githubVars
<1>6. QED
  BY <1>2, <1>3, <1>4, <1>5

\* A request comes: the cache answers it, if it has not expired, or GitHub will.
LEMMA ReleaseAssetStep ==
  ASSUME BrokerInv, NEW d \in Downloads, NEW f \in Files, ReleaseAsset(d, f)
  PROVE  BrokerInv'
<1> DEFINE request == [NoDownload EXCEPT !.pc = "release", !.file = f, !.came = clock]
<1>1. UNCHANGED <<clock, githubVars, published, releaseCache>>
  BY DEF ReleaseAsset
<1>2. /\ request \in Requests /\ request.file = f /\ request.came = clock /\ request.pc = "release"
      /\ clock \in Nat
  BY DEF NoDownload, Requests, BrokerInv, BrokerTypeOK, GithubTypeOK
<1>3. HIDE DEF request
<1>4. CASE CachedRelease
  <2>1. releaseCache # NoAsset /\ releaseCache \in BrokerAnswers /\ releaseCache.expires >= clock
    BY <1>4 DEF CachedRelease, BrokerInv, BrokerTypeOK
  <2>2. Chosen(d, request, releaseCache)
    BY <1>4 DEF ReleaseAsset, request
  <2>3. CacheInv /\ clock <= clock /\ clock <= releaseCache.expires
    BY <1>2, <2>1 DEF BrokerInv, BrokerAnswers
  <2>4. LET asset == Fit(releaseCache, releaseCache.complete, request.file)
        IN  Sound(IF asset = NoAsset THEN NoDownload
                  ELSE [request EXCEPT !.pc = "fetch", !.asset = asset])
    BY <1>2, <2>1, <2>3, ChosenIsSound DEF CacheInv
  <2>5. QED
    BY <1>1, <2>2, <2>4, BrokerRequestStep DEF Chosen
<1>5. CASE ~CachedRelease
  <2>1. Goes(d, request)
    BY <1>5 DEF ReleaseAsset, request
  <2>2. Sound(request)
    BY <1>2 DEF Sound
  <2>3. QED
    BY <1>1, <2>1, <2>2, BrokerRequestStep
<1>6. QED
  BY <1>4, <1>5

\* GitHub answers: what is public now is what the cache has from now on.
LEMMA GithubReleaseStep ==
  ASSUME BrokerInv, NEW d \in Downloads, GithubRelease(d)
  PROVE  BrokerInv'
<1> DEFINE answer == [draft |-> release.draft, assets |-> release.assets, complete |-> finished,
                      expires |-> download[d].came + CacheTime]
<1>1. UNCHANGED <<clock, githubVars, published>>
  BY DEF GithubRelease
<1>2. /\ download[d] \in Requests /\ download[d].came \in Nat /\ download[d].came <= clock
      /\ download[d].pc = "release" /\ download[d].file \in Files /\ clock \in Nat
      /\ CacheTime \in Nat
  BY DownloadIsSound, BrokerAssumption
     DEF GithubRelease, Sound, Requests, BrokerInv, BrokerTypeOK, GithubTypeOK
<1>3. answer \in BrokerAnswers
  <2>1. finished \subseteq Assets
    BY BrokerAssumption DEF BrokerInv, BrokerTypeOK, GithubTypeOK, Assets
  <2>2. QED
    BY <1>2, <2>1 DEF BrokerAnswers, BrokerInv, BrokerTypeOK, GithubTypeOK
<1>4. /\ answer.draft = release.draft /\ answer.assets = release.assets
      /\ answer.complete = finished /\ answer.expires = download[d].came + CacheTime
  OBVIOUS
<1>5. releaseCache' = answer /\ Chosen(d, download[d], answer)
  BY DEF GithubRelease
<1>6. HIDE DEF answer
<1>7. ~answer.draft => \A f \in Files : answer.assets[f] \in answer.complete =>
          Listed(answer.assets[f])
  BY <1>4 DEF Listed
<1>8. CacheInv'
  BY <1>1, <1>2, <1>4, <1>5, <1>7 DEF CacheInv, LatelyPublic, Listed, githubVars
<1>9. LET asset == Fit(answer, answer.complete, download[d].file)
      IN  Sound(IF asset = NoAsset THEN NoDownload
                ELSE [download[d] EXCEPT !.pc = "fetch", !.asset = asset])
  <2>1. ~answer.draft => \A f \in Files : answer.assets[f] \in answer.complete =>
            LatelyPublic(answer.assets[f], answer.expires)
    BY <1>7 DEF LatelyPublic
  <2>2. answer.complete \subseteq finished /\ download[d].came <= answer.expires
    BY <1>2, <1>4
  <2>3. QED
    BY <1>2, <1>3, <2>1, <2>2, ChosenIsSound
<1>10. BrokerTypeOK'
  <2>1. GithubTypeOK' /\ releaseCache' \in BrokerAnswers
    BY <1>1, <1>3, <1>5 DEF BrokerInv, BrokerTypeOK, GithubTypeOK, githubVars
  <2>2. download' \in [Downloads -> Requests]
    BY <1>5, <1>9 DEF Chosen, Goes, Sound, BrokerInv, BrokerTypeOK
  <2>3. QED
    BY <2>1, <2>2 DEF BrokerTypeOK
<1>11. QED
  BY <1>1, <1>5, <1>8, <1>9, <1>10, RequestGoesOn DEF Chosen

\* A request that has its asset goes on with it, or ends.
LEMMA FetchSteps ==
  ASSUME BrokerInv, NEW d \in Downloads, NEW yes \in BOOLEAN,
         \/ Redirect(d, yes) \/ DownloadAsset(d) \/ StreamAsset(d, yes)
         \/ ValidManifest(d, yes) \/ Ends(d)
  PROVE  BrokerInv'
<1>1. UNCHANGED <<clock, githubVars, published, releaseCache>>
  BY DEF Redirect, DownloadAsset, StreamAsset, ValidManifest, Ends
<1>2. Sound(download[d]) /\ download[d] \in Requests
  BY DownloadIsSound DEF Sound
<1>3. PICK r : Goes(d, r) /\ Sound(r)
  <2>1. CASE Goes(d, NoDownload)
    BY <2>1, NoDownloadIsSound
  <2>2. CASE download[d].pc = "fetch" /\ Goes(d, [download[d] EXCEPT !.redirects = @ + 1])
    <3>1. Sound([download[d] EXCEPT !.redirects = @ + 1])
      BY <1>2, <2>2 DEF Sound, Requests
    <3>2. QED
      BY <2>2, <3>1
  <2>3. CASE download[d].pc = "fetch" /\ Goes(d, [download[d] EXCEPT !.pc = "stream"])
    <3>1. Sound([download[d] EXCEPT !.pc = "stream"])
      BY <1>2, <2>3 DEF Sound, Requests
    <3>2. QED
      BY <2>3, <3>1
  <2>4. CASE download[d].pc = "stream" /\ Goes(d, [download[d] EXCEPT !.pc = "served"])
    <3>1. Sound([download[d] EXCEPT !.pc = "served"])
      BY <1>2, <2>4 DEF Sound, Requests
    <3>2. QED
      BY <2>4, <3>1
  <2>5. QED
    BY <2>1, <2>2, <2>3, <2>4
       DEF Redirect, DownloadAsset, StreamAsset, ValidManifest, Ends, Served, Unavailable
<1>4. QED
  BY <1>1, <1>3, BrokerRequestStep

\* At first GitHub has a draft, and the broker nothing.
LEMMA BrokerInvInit == BrokerInit => BrokerInv
<1>1. SUFFICES ASSUME BrokerInit PROVE BrokerInv
  OBVIOUS
<1>2. GithubTypeOK
  BY <1>1, BrokerAssumption DEF BrokerInit, GithubTypeOK
<1>3. BrokerTypeOK
  BY <1>1, <1>2 DEF BrokerInit, BrokerTypeOK, NoDownload, Requests
<1>4. CacheInv
  BY <1>1 DEF BrokerInit, CacheInv
<1>5. DownloadInv
  BY <1>1 DEF BrokerInit, DownloadInv, NoDownload
<1>6. QED
  BY <1>3, <1>4, <1>5 DEF BrokerInv

\* Every step keeps it.
LEMMA BrokerInvStep == BrokerInv /\ [BrokerNext]_brokerVars => BrokerInv'
<1>1. SUFFICES ASSUME BrokerInv, [BrokerNext]_brokerVars
               PROVE  BrokerInv'
  OBVIOUS
<1>2. CASE BrokerNext
  BY <1>1, <1>2, OperatorSteps, ReleaseAssetStep, GithubReleaseStep, FetchSteps DEF BrokerNext
<1>3. CASE UNCHANGED brokerVars
  BY <1>1, <1>3
     DEF brokerVars, BrokerInv, BrokerTypeOK, GithubTypeOK, CacheInv, DownloadInv, LatelyPublic, Listed
<1>4. QED
  BY <1>1, <1>2, <1>3

\* The inductive invariant holds of every state.
THEOREM BrokerInvariant == BrokerSpec => []BrokerInv
BY BrokerInvInit, BrokerInvStep, PTL DEF BrokerSpec

\* For any number of requests, assets and files, and any life of a cache entry: what is
\* served was, complete and not too large, an asset of the published release when the request
\* came, later, or at most that life before (control-plane/src/index.ts, releaseAsset).
THEOREM WithdrawnIsNeverServed == BrokerSpec => []WithdrawnIsNotServed
<1>1. BrokerInv => WithdrawnIsNotServed
  BY DEF BrokerInv, DownloadInv, LatelyPublic, WithdrawnIsNotServed
<1>2. QED
  BY <1>1, BrokerInvariant, PTL

-----------------------------------------------------------------------------
(* The operator's desk (ControlDesk).                                       *)

DeskTypeOK ==
    /\ queued \in [Sites -> Nat] /\ issued \in Nat /\ heard \in [Sites -> Nat]
    /\ handled \in [Sites -> BOOLEAN]
    /\ approval \in [Sites -> {"none", "pending"} \cup Answers]
    /\ seen \in [Sites -> {"none", "pending"} \cup Answers]
    /\ label \in [Sites -> {"empty", "device", "operator"}]

\* An acknowledgement, and the site that is about to send one, are for an action that a run
\* of the handler was for; an answer that a site has read is the one that was given.
DeskInv ==
    /\ DeskTypeOK
    /\ \A s \in Sites : heard[s] # 0 /\ handled[s] => heard[s] \in applied
    /\ \A a \in acks : a[2] \in applied
    /\ \A s \in Sites : seen[s] \in Answers => approval[s] = seen[s]

\* The steps of the queue.
LEMMA ActionStep ==
  ASSUME DeskInv, NEW s \in Sites,
         \/ QueueAction(s) \/ Poll(s) \/ Apply(s) \/ SendAck(s) \/ SiteStops(s)
         \/ \E n \in 1 .. MaxActions : ReceiveAck(s, n) \/ LoseAck(s, n)
  PROVE  DeskInv'
<1> USE DEF DeskInv, DeskTypeOK, approvalVars, nameVars
<1>1. CASE QueueAction(s)
  BY <1>1 DEF QueueAction
<1>2. CASE Poll(s)
  BY <1>2 DEF Poll
<1>3. CASE Apply(s)
  BY <1>3 DEF Apply
<1>4. CASE SendAck(s)
  BY <1>4 DEF SendAck
<1>5. CASE SiteStops(s)
  BY <1>5 DEF SiteStops
<1>6. CASE \E n \in 1 .. MaxActions : ReceiveAck(s, n) \/ LoseAck(s, n)
  BY <1>6 DEF ReceiveAck, LoseAck
<1>7. QED
  BY <1>1, <1>2, <1>3, <1>4, <1>5, <1>6

\* The steps of the requests, the alerts and the names.
LEMMA WordStep ==
  ASSUME DeskInv,
         \/ ListApprovals
         \/ \E s \in Sites :
             \/ Ask(s) \/ Learn(s) \/ \E answer \in Answers : Decide(s, answer)
             \/ Ingest(s) \/ Acknowledge(s) \/ ReportName(s)
             \/ \E l \in {"empty", "operator"} : SetLabel(s, l)
  PROVE  DeskInv'
<1> USE DEF DeskInv, DeskTypeOK, actionVars, approvalVars, nameVars
<1>1. CASE ListApprovals
  BY <1>1 DEF ListApprovals
<1>2. ASSUME NEW s \in Sites, Ask(s) PROVE DeskInv'
  BY <1>2 DEF Ask, Answers
<1>3. ASSUME NEW s \in Sites, Learn(s) PROVE DeskInv'
  BY <1>3 DEF Learn
<1>4. ASSUME NEW s \in Sites, NEW answer \in Answers, Decide(s, answer) PROVE DeskInv'
  BY <1>4 DEF Decide, Answers
<1>5. ASSUME NEW s \in Sites,
             \/ Ingest(s) \/ Acknowledge(s) \/ ReportName(s)
             \/ \E l \in {"empty", "operator"} : SetLabel(s, l)
      PROVE  DeskInv'
  BY <1>5 DEF Ingest, Acknowledge, ReportName, SetLabel
<1>6. QED
  BY <1>1, <1>2, <1>3, <1>4, <1>5

\* For any number of installations, actions, lost or repeated acknowledgements and pages of
\* the operator: an action leaves the queue only when it has been applied, and what the
\* operator has answered or named stands.
THEOREM WordIsKept == DeskSpec => DeskKeepsItsWord
<1>1. DeskInit => DeskInv
  BY DEF DeskInit, DeskInv, DeskTypeOK, Answers
<1>2. DeskInv /\ [DeskNext]_deskVars => DeskInv'
  <2>1. DeskInv /\ UNCHANGED deskVars => DeskInv'
    BY DEF deskVars, DeskInv, DeskTypeOK
  <2>2. QED
    BY <2>1, ActionStep, WordStep DEF DeskNext
<1>3. DeskInv /\ [DeskNext]_deskVars =>
        [\A s \in Sites :
           /\ queued[s] # 0 /\ queued'[s] # queued[s] => queued[s] \in applied
           /\ seen[s] \in Answers => approval'[s] = seen[s]
           /\ label[s] = "operator" => label'[s] # "device"]_deskVars
  <2> SUFFICES ASSUME DeskInv, DeskNext, NEW s \in Sites
               PROVE  /\ queued[s] # 0 /\ queued'[s] # queued[s] => queued[s] \in applied
                      /\ seen[s] \in Answers => approval'[s] = seen[s]
                      /\ label[s] = "operator" => label'[s] # "device"
    OBVIOUS
  <2>1. queued[s] # 0 /\ queued'[s] # queued[s] => queued[s] \in applied
    BY DEF DeskInv, DeskTypeOK, DeskNext, actionVars, ListApprovals, QueueAction, Poll, Apply,
           SendAck, SiteStops, ReceiveAck, LoseAck, Ask, Learn, Decide, Ingest, Acknowledge,
           ReportName, SetLabel
  <2>2. seen[s] \in Answers => approval'[s] = seen[s]
    BY DEF DeskInv, DeskTypeOK, DeskNext, approvalVars, ListApprovals, QueueAction, Poll, Apply,
           SendAck, SiteStops, ReceiveAck, LoseAck, Ask, Learn, Decide, Ingest, Acknowledge,
           ReportName, SetLabel, Answers
  <2>3. label[s] = "operator" => label'[s] # "device"
    BY DEF DeskInv, DeskTypeOK, DeskNext, nameVars, ListApprovals, QueueAction, Poll, Apply,
           SendAck, SiteStops, ReceiveAck, LoseAck, Ask, Learn, Decide, Ingest, Acknowledge,
           ReportName, SetLabel
  <2>4. QED
    BY <2>1, <2>2, <2>3
<1>4. QED
  BY <1>1, <1>2, <1>3, PTL DEF DeskSpec, DeskKeepsItsWord

-----------------------------------------------------------------------------
(* Sums over a finite set (FiniteSetsExt: MapThenSumSet).                   *)

\* The sum of a function over a set.
Sum(f, S) == MapThenSumSet(LAMBDA b : f[b], S)

\* What a sum over every part of a set is: nothing for the empty one, and for any other
\* what is left without any one of its elements, and that element.
IsSum(g, f, S) ==
    /\ g \in [SUBSET S -> Nat]
    /\ g[{}] = 0
    /\ \A T \in SUBSET S : \A x \in T : g[T] = f[x] + g[T \ {x}]

\* Of some finite sets, one has none of the others in it: induction over finite sets.
LEMMA SmallestSet ==
  ASSUME NEW S, NEW T \in SUBSET FiniteSubsetsOf(S), T # {}
  PROVE  \E A \in T : \A B \in T : B \subseteq A => B = A
<1>1. IsWellFoundedOn(StrictSubsetOrdering(S), FiniteSubsetsOf(S))
  BY FS_StrictSubsetOrderingWellFounded
<1>2. PICK A \in T : \A B \in T : <<B, A>> \notin StrictSubsetOrdering(S)
  BY <1>1, WFMin, Zenon
<1>3. QED
  BY <1>2 DEF StrictSubsetOrdering, FiniteSubsetsOf

\* The sum exists with one element more.
LEMMA SumGrows ==
  ASSUME NEW S, NEW b, b \notin S, NEW f, f[b] \in Nat, \A x \in S : f[x] \in Nat,
         NEW g, IsSum(g, f, S)
  PROVE  \E h : IsSum(h, f, S \cup {b})
<1> DEFINE U == S \cup {b}
           h == [T \in SUBSET U |-> IF b \in T THEN f[b] + g[T \ {b}] ELSE g[T]]
<1>1. \A T \in SUBSET U : T \ {b} \in SUBSET S /\ (b \notin T => T \in SUBSET S)
  OBVIOUS
<1>2. \A T \in SUBSET S : g[T] \in Nat
  BY DEF IsSum
<1>3. h \in [SUBSET U -> Nat]
  BY <1>1, <1>2
<1>4. h[{}] = 0
  BY DEF IsSum
<1>5. ASSUME NEW T \in SUBSET U, NEW x \in T PROVE h[T] = f[x] + h[T \ {x}]
  <2>1. T \ {x} \in SUBSET U
    OBVIOUS
  <2>2. CASE b \notin T
    BY <1>1, <2>1, <2>2 DEF IsSum
  <2>3. CASE b \in T /\ x = b
    BY <1>1, <2>1, <2>3
  <2>4. CASE b \in T /\ x # b
    <3> DEFINE R == T \ {b}
    <3>1. x \in R /\ R \in SUBSET S /\ R \ {x} \in SUBSET S /\ x \in S
      BY <1>1, <2>4
    <3>2. g[R] = f[x] + g[R \ {x}] /\ g[R] \in Nat /\ g[R \ {x}] \in Nat /\ f[x] \in Nat
      BY <1>2, <3>1 DEF IsSum
    <3>3. h[T] = f[b] + g[R] /\ b \in T \ {x} /\ (T \ {x}) \ {b} = R \ {x}
      BY <2>4
    <3>4. h[T \ {x}] = f[b] + g[R \ {x}]
      BY <2>1, <3>3
    <3> HIDE DEF h, R
    <3>5. QED
      BY <3>2, <3>3, <3>4
  <2>5. QED
    BY <2>2, <2>3, <2>4
<1> HIDE DEF h
<1>6. IsSum(h, f, U)
  BY <1>3, <1>4, <1>5 DEF IsSum
<1>7. QED
  BY <1>6

\* Every finite set of numbers has a sum.
LEMMA SumExists ==
  ASSUME NEW S, IsFiniteSet(S), NEW f, \A x \in S : f[x] \in Nat
  PROVE  \E g : IsSum(g, f, S)
<1> DEFINE Bad == {T \in SUBSET S : ~\E g : IsSum(g, f, T)}
<1>1. SUFFICES ASSUME Bad # {} PROVE FALSE
  OBVIOUS
<1>2. Bad \in SUBSET FiniteSubsetsOf(S)
  BY FS_Subset DEF FiniteSubsetsOf
<1>3. PICK A \in Bad : \A B \in Bad : B \subseteq A => B = A
  <2> HIDE DEF Bad
  <2> QED
    BY <1>1, <1>2, SmallestSet
<1>4. A # {}
  <2>1. IsSum([T \in SUBSET {} |-> 0], f, {})
    BY DEF IsSum
  <2>2. QED
    BY <2>1
<1>5. PICK b \in A : TRUE
  BY <1>4
<1> DEFINE R == A \ {b}
<1>6. R \notin Bad /\ R \in SUBSET S /\ b \in S /\ b \notin R /\ R \cup {b} = A
  BY <1>3, <1>5
<1>7. PICK g : IsSum(g, f, R)
  BY <1>6
<1> HIDE DEF R
<1>8. \E h : IsSum(h, f, R \cup {b})
  BY <1>6, <1>7, SumGrows
<1>9. QED
  BY <1>6, <1>8

\* MapThenSumSet computes it, in whatever order it takes the elements.
LEMMA SumIsSum ==
  ASSUME NEW S, IsFiniteSet(S), NEW f, NEW g, IsSum(g, f, S)
  PROVE  Sum(f, S) = g[S]
<1> DEFINE First(T) == CHOOSE x \in T : TRUE
           Follows(h) == [T \in SUBSET S |-> IF T = {} THEN 0 ELSE f[First(T)] + h[T \ {First(T)}]]
           iter == CHOOSE h : h = Follows(h)
<1>1. Sum(f, S) = iter[S]
  BY DEF Sum, MapThenSumSet, MapThenFoldSet
<1>2. \A T \in SUBSET S : T # {} => First(T) \in T
  OBVIOUS
<1>3. g = Follows(g)
  BY <1>2 DEF IsSum
<1>4. iter = Follows(iter)
  <2> HIDE DEF Follows
  <2> QED
    BY <1>3
<1> HIDE DEF iter
<1> DEFINE Bad == {T \in SUBSET S : iter[T] # g[T]}
<1>5. SUFFICES ASSUME Bad # {} PROVE FALSE
  BY <1>1
<1>6. Bad \in SUBSET FiniteSubsetsOf(S)
  BY FS_Subset DEF FiniteSubsetsOf
<1>7. PICK A \in Bad : \A B \in Bad : B \subseteq A => B = A
  <2> HIDE DEF Bad
  <2> QED
    BY <1>5, <1>6, SmallestSet
<1>8. A \in SUBSET S /\ iter[A] = (IF A = {} THEN 0 ELSE f[First(A)] + iter[A \ {First(A)}])
      /\ g[A] = (IF A = {} THEN 0 ELSE f[First(A)] + g[A \ {First(A)}])
  BY <1>3, <1>4
<1>9. A # {} /\ A \ {First(A)} \notin Bad
  BY <1>2, <1>7, <1>8
<1>10. QED
  BY <1>7, <1>8, <1>9

\* A sum, element by element.
LEMMA SumFacts ==
  ASSUME NEW S, IsFiniteSet(S), NEW f, \A x \in S : f[x] \in Nat
  PROVE  /\ Sum(f, S) \in Nat
         /\ \A x \in S : Sum(f, S) = f[x] + Sum(f, S \ {x})
         /\ S = {} => Sum(f, S) = 0
<1>1. PICK g : IsSum(g, f, S)
  BY SumExists
<1>2. Sum(f, S) = g[S]
  BY <1>1, SumIsSum
<1>3. ASSUME NEW x \in S PROVE Sum(f, S) = f[x] + Sum(f, S \ {x})
  <2> DEFINE R == S \ {x}
             k == [T \in SUBSET R |-> g[T]]
  <2>1. IsSum(k, f, R)
    BY <1>1 DEF IsSum
  <2>2. IsFiniteSet(R)
    BY FS_RemoveElement
  <2> HIDE DEF R, k
  <2>3. Sum(f, R) = k[R]
    BY <2>1, <2>2, SumIsSum
  <2>4. k[R] = g[R] /\ g[S] = f[x] + g[R]
    BY <1>1 DEF IsSum, R, k
  <2>5. QED
    BY <1>2, <2>3, <2>4 DEF R
<1>4. QED
  BY <1>1, <1>2, <1>3 DEF IsSum

\* The sum is the same for functions that are the same on the set.
LEMMA SumSame ==
  ASSUME NEW S, IsFiniteSet(S), NEW f, NEW h, \A x \in S : f[x] \in Nat /\ h[x] = f[x]
  PROVE  Sum(h, S) = Sum(f, S)
<1>1. PICK g : IsSum(g, f, S)
  BY SumExists
<1>2. IsSum(g, h, S)
  BY <1>1 DEF IsSum
<1>3. QED
  BY <1>1, <1>2, SumIsSum

\* The sum of a part is no more than the sum of the whole.
LEMMA SumOfPart ==
  ASSUME NEW S, IsFiniteSet(S), NEW f, \A x \in S : f[x] \in Nat, NEW T \in SUBSET S
  PROVE  Sum(f, T) <= Sum(f, S)
<1> DEFINE Rests == {R \in SUBSET S : ~(Sum(f, S \ R) <= Sum(f, S))}
<1>1. SUFFICES ASSUME Rests # {} PROVE FALSE
  <2>1. S \ T \in SUBSET S /\ S \ (S \ T) = T
    OBVIOUS
  <2>2. QED
    BY <2>1
<1>2. Rests \in SUBSET FiniteSubsetsOf(S)
  BY FS_Subset DEF FiniteSubsetsOf
<1>3. PICK A \in Rests : \A B \in Rests : B \subseteq A => B = A
  <2> HIDE DEF Rests
  <2> QED
    BY <1>1, <1>2, SmallestSet
<1>4. A # {}
  <2>1. S \ {} = S /\ Sum(f, S) <= Sum(f, S)
    BY SumFacts
  <2>2. QED
    BY <1>3, <2>1
<1>5. PICK x \in A : TRUE
  BY <1>4
<1>6. A \ {x} \notin Rests /\ A \in SUBSET S /\ x \in S
  BY <1>3, <1>5
<1> DEFINE R == S \ (A \ {x})
<1>7. Sum(f, R) <= Sum(f, S) /\ x \in R /\ R \ {x} = S \ A /\ R \in SUBSET S
  BY <1>5, <1>6
<1>8. IsFiniteSet(R) /\ IsFiniteSet(S \ A)
  BY FS_Subset
<1>9. /\ Sum(f, R) = f[x] + Sum(f, S \ A) /\ Sum(f, R) \in Nat /\ Sum(f, S \ A) \in Nat
      /\ f[x] \in Nat /\ Sum(f, S) \in Nat
  <2> HIDE DEF R
  <2>1. \A y \in R : f[y] \in Nat
    BY <1>7
  <2>2. \A y \in S \ A : f[y] \in Nat
    OBVIOUS
  <2>3. Sum(f, R) = f[x] + Sum(f, R \ {x}) /\ Sum(f, R) \in Nat
    BY <1>7, <1>8, <2>1, SumFacts
  <2>4. Sum(f, S \ A) \in Nat /\ Sum(f, S) \in Nat
    BY <1>8, <2>2, SumFacts
  <2>5. QED
    BY <1>6, <1>7, <2>3, <2>4
<1> HIDE DEF R
<1>10. QED
  BY <1>3, <1>7, <1>9

-----------------------------------------------------------------------------
(* The store of diagnostic bundles (Diagnostics).                           *)

DiagnosticsTypeOK ==
    /\ stored \subseteq Bundles /\ listed \subseteq Bundles
    /\ IsFiniteSet(stored) /\ IsFiniteSet(listed)
    /\ size \in [Bundles -> Nat] /\ used \in Nat /\ torn \in BOOLEAN
    /\ job \in UploadJobs \cup {NoJob}

\* The bundle of an upload that has not stored it is new, and the running total stays
\* below the cap.
UploadIsNew ==
    /\ \A b \in stored \cup listed : size[b] > 0
    /\ used <= Cap
    /\ job # NoJob =>
        /\ size[job.bundle] > 0 /\ job.total <= Cap
        /\ job.pc \in {"sweep", "forget", "check"} => job.bundle \notin stored \cup listed
        /\ job.pc \in {"list", "count"} => job.total + size[job.bundle] <= Cap
        /\ job.pc = "list" => job.bundle \notin listed

\* As long as nothing was torn, every bundle in the bucket has its metadata, and the running
\* total, or the upload's copy of it, counts everything that has metadata: a bundle whose
\* bytes a broken sweep took away too, which the next sweep counts off.
ListedIsCounted ==
    ~torn =>
        /\ job = NoJob => stored \subseteq listed /\ Sum(size, listed) <= used
        /\ job # NoJob /\ job.pc \in {"sweep", "forget", "check"} =>
              stored \subseteq listed /\ Sum(size, listed) <= job.total /\ job.total <= used
        /\ job # NoJob /\ job.pc = "forget" => job.victim \in listed \ stored
        /\ job # NoJob /\ job.pc = "list" =>
              stored \subseteq listed \cup {job.bundle} /\ Sum(size, listed) <= job.total
        /\ job # NoJob /\ job.pc = "count" =>
              stored \subseteq listed /\ Sum(size, listed) <= job.total + size[job.bundle]

DiagnosticsInv == DiagnosticsTypeOK /\ UploadIsNew /\ ListedIsCounted

\* A running total that counts what has metadata is enough for what is in the bucket.
LEMMA DiagnosticsInvSuffices ==
  ASSUME DiagnosticsInv
  PROVE  BucketWithinCap
<1>1. /\ Bytes(stored) = Sum(size, stored)
      /\ \A S : S \subseteq Bundles => \A x \in S : size[x] \in Nat
  BY DEF Bytes, Sum, DiagnosticsInv, DiagnosticsTypeOK
<1>2. /\ used \in Nat /\ Cap \in Nat /\ used <= Cap /\ IsFiniteSet(stored) /\ IsFiniteSet(listed)
      /\ stored \subseteq Bundles /\ listed \subseteq Bundles
  BY DiagnosticsAssumption DEF DiagnosticsInv, DiagnosticsTypeOK, UploadIsNew
<1>3. Sum(size, stored) \in Nat /\ Sum(size, listed) \in Nat
  BY <1>1, <1>2, SumFacts
<1>4. stored \subseteq listed => Sum(size, stored) <= Sum(size, listed)
  BY <1>1, <1>2, SumOfPart
<1>5. ASSUME ~torn, job = NoJob PROVE Sum(size, stored) <= used
  BY <1>2, <1>3, <1>4, <1>5 DEF DiagnosticsInv, ListedIsCounted
<1>6. ASSUME ~torn, job # NoJob PROVE Sum(size, stored) <= Cap
  <2>1. /\ job.total \in Nat /\ job.bundle \in Bundles /\ size[job.bundle] \in Nat
        /\ job.pc \in {"sweep", "forget", "check", "list", "count"}
    BY <1>6 DEF DiagnosticsInv, DiagnosticsTypeOK, UploadJobs
  <2>2. CASE job.pc = "list"
    <3> DEFINE S == listed \cup {job.bundle}
    <3>1. IsFiniteSet(S) /\ S \subseteq Bundles /\ stored \subseteq S /\ S \ {job.bundle} = listed
          /\ job.bundle \in S
      BY <1>2, <1>6, <2>1, <2>2, FS_AddElement DEF DiagnosticsInv, ListedIsCounted, UploadIsNew
    <3> HIDE DEF S
    <3>2. Sum(size, S) = size[job.bundle] + Sum(size, listed) /\ Sum(size, S) \in Nat
      BY <1>1, <3>1, SumFacts
    <3>3. Sum(size, stored) <= Sum(size, S)
      BY <1>1, <3>1, SumOfPart
    <3>4. Sum(size, listed) <= job.total /\ job.total + size[job.bundle] <= Cap
      BY <1>6, <2>2 DEF DiagnosticsInv, ListedIsCounted, UploadIsNew
    <3>5. QED
      BY <1>2, <1>3, <2>1, <3>2, <3>3, <3>4
  <2>3. CASE job.pc = "count"
    <3>1. /\ Sum(size, listed) <= job.total + size[job.bundle] /\ job.total + size[job.bundle] <= Cap
          /\ stored \subseteq listed
      BY <1>6, <2>3 DEF DiagnosticsInv, ListedIsCounted, UploadIsNew
    <3>2. QED
      BY <1>2, <1>3, <1>4, <2>1, <3>1
  <2>4. CASE job.pc \in {"sweep", "forget", "check"}
    <3>1. Sum(size, listed) <= job.total /\ job.total <= Cap /\ stored \subseteq listed
      BY <1>6, <2>4 DEF DiagnosticsInv, ListedIsCounted, UploadIsNew
    <3>2. QED
      BY <1>2, <1>3, <1>4, <2>1, <3>1
  <2>5. QED
    BY <2>1, <2>2, <2>3, <2>4
<1>7. QED
  BY <1>1, <1>2, <1>3, <1>5, <1>6 DEF BucketWithinCap

\* An upload begins: the running total does not count what is new.
LEMMA UploadStep ==
  ASSUME DiagnosticsInv, NEW b \in Bundles, NEW bytes \in 1..MaxSize, Upload(b, bytes)
  PROVE  DiagnosticsInv'
<1> DEFINE j == [bundle |-> b, pc |-> "sweep", swept |-> 0, total |-> used, victim |-> b]
<1>1. /\ job = NoJob /\ size[b] = 0 /\ size' = [size EXCEPT ![b] = bytes] /\ job' = j
      /\ stored' = stored /\ listed' = listed /\ used' = used /\ torn' = torn
  BY DEF Upload
<1>2. /\ stored \subseteq Bundles /\ listed \subseteq Bundles /\ IsFiniteSet(listed)
      /\ size \in [Bundles -> Nat] /\ used \in Nat /\ b \notin stored \cup listed /\ bytes \in Nat
      /\ bytes > 0 /\ used <= Cap /\ \A c \in stored \cup listed : size[c] > 0
  BY <1>1, DiagnosticsAssumption DEF DiagnosticsInv, DiagnosticsTypeOK, UploadIsNew
<1>3. /\ j \in UploadJobs /\ j # NoJob /\ j.bundle = b /\ j.pc = "sweep" /\ j.total = used
  BY <1>2, DiagnosticsAssumption DEF UploadJobs
<1> HIDE DEF j
<1>4. size' \in [Bundles -> Nat] /\ size'[b] = bytes /\ \A c \in stored \cup listed : size'[c] = size[c]
  BY <1>1, <1>2
<1>5. DiagnosticsTypeOK'
  BY <1>1, <1>3, <1>4 DEF DiagnosticsInv, DiagnosticsTypeOK
<1>6. UploadIsNew'
  BY <1>1, <1>2, <1>3, <1>4 DEF UploadIsNew
<1>7. ListedIsCounted'
  <2>1. Sum(size', listed) = Sum(size, listed)
    <3>1. \A x \in listed : size[x] \in Nat /\ size'[x] = size[x]
      BY <1>2, <1>4
    <3>2. QED
      BY <1>2, <3>1, SumSame
  <2>2. ~torn => stored \subseteq listed /\ Sum(size, listed) <= used
    BY <1>1 DEF DiagnosticsInv, ListedIsCounted
  <2>3. QED
    BY <1>1, <1>2, <1>3, <2>1, <2>2 DEF ListedIsCounted
<1>8. QED
  BY <1>5, <1>6, <1>7 DEF DiagnosticsInv

\* One old bundle is swept.
LEMMA SweepStep ==
  ASSUME DiagnosticsInv, NEW v \in Bundles, Sweep(v)
  PROVE  DiagnosticsInv'
<1> DEFINE j == [job EXCEPT !.pc = "forget", !.victim = v]
<1>1. /\ job # NoJob /\ job.pc = "sweep" /\ v \in listed /\ stored' = stored \ {v}
      /\ (job' = j \/ job' = NoJob)
      /\ listed' = listed /\ size' = size /\ used' = used /\ torn' = torn
  BY DEF Sweep, Uploading
<1>2. /\ j \in UploadJobs /\ j # NoJob /\ j.bundle = job.bundle /\ j.pc = "forget" /\ j.victim = v
      /\ j.total = job.total
  BY <1>1, DiagnosticsAssumption DEF UploadJobs, DiagnosticsInv, DiagnosticsTypeOK
<1> HIDE DEF j
<1>3. DiagnosticsTypeOK'
  BY <1>1, <1>2, FS_RemoveElement DEF DiagnosticsInv, DiagnosticsTypeOK
<1>4. UploadIsNew'
  BY <1>1, <1>2 DEF DiagnosticsInv, UploadIsNew
<1>5. ListedIsCounted'
  <2>1. ASSUME ~torn
        PROVE  /\ stored' \subseteq listed /\ Sum(size, listed) <= job.total /\ job.total <= used
               /\ Sum(size, listed) <= used
    <3>1. stored \subseteq listed /\ Sum(size, listed) <= job.total /\ job.total <= used
      BY <1>1, <2>1 DEF DiagnosticsInv, ListedIsCounted
    <3>2. Sum(size, listed) \in Nat
      BY SumFacts DEF DiagnosticsInv, DiagnosticsTypeOK
    <3>3. job.total \in Nat /\ used \in Nat
      BY <1>1 DEF DiagnosticsInv, DiagnosticsTypeOK, UploadJobs
    <3>4. QED
      BY <1>1, <3>1, <3>2, <3>3
  <2>2. CASE job' = j
    BY <1>1, <1>2, <2>1, <2>2 DEF ListedIsCounted
  <2>3. CASE job' = NoJob
    BY <1>1, <2>1, <2>3 DEF ListedIsCounted
  <2>4. QED
    BY <1>1, <2>2, <2>3
<1>6. QED
  BY <1>3, <1>4, <1>5 DEF DiagnosticsInv

\* Its metadata is deleted, and the upload's copy of the running total counts it off.
LEMMA ForgetStep ==
  ASSUME DiagnosticsInv, Forget
  PROVE  DiagnosticsInv'
<1> DEFINE v == job.victim
           total == IF size[v] > job.total THEN 0 ELSE job.total - size[v]
           j == [job EXCEPT !.pc = "sweep", !.swept = @ + 1, !.total = total]
<1>1. /\ job # NoJob /\ job.pc = "forget" /\ listed' = listed \ {v} /\ job' = j
      /\ stored' = stored /\ size' = size /\ used' = used /\ torn' = torn
  BY DEF Forget, Uploading
<1>2. job \in UploadJobs /\ size \in [Bundles -> Nat]
  BY <1>1 DEF DiagnosticsInv, DiagnosticsTypeOK
<1>3. v \in Bundles /\ size[v] \in Nat /\ job.total \in Nat
  BY <1>2 DEF UploadJobs
<1>4. total \in Nat /\ total <= job.total
  BY <1>3
<1>5. /\ j \in UploadJobs /\ j # NoJob /\ j.bundle = job.bundle /\ j.pc = "sweep" /\ j.total = total
  <2>1. ASSUME NEW t \in Nat
        PROVE  LET k == [job EXCEPT !.pc = "sweep", !.swept = @ + 1, !.total = t]
               IN  k \in UploadJobs /\ k.bundle = job.bundle /\ k.pc = "sweep" /\ k.total = t
    <3>1. job.swept + 1 \in Nat
      BY <1>2 DEF UploadJobs
    <3> DEFINE n == job.swept + 1
    <3>2. [job EXCEPT !.pc = "sweep", !.swept = @ + 1, !.total = t]
            = [job EXCEPT !.pc = "sweep", !.swept = n, !.total = t]
      BY <1>2 DEF UploadJobs
    <3> HIDE DEF n
    <3>3. n \in Nat
      BY <3>1 DEF n
    <3>4. QED
      BY <1>2, <3>2, <3>3 DEF UploadJobs
  <2>2. j = [job EXCEPT !.pc = "sweep", !.swept = @ + 1, !.total = total]
    OBVIOUS
  <2> HIDE DEF j, total
  <2>3. j \in UploadJobs /\ j.bundle = job.bundle /\ j.pc = "sweep" /\ j.total = total
    BY <1>4, <2>1, <2>2
  <2>4. QED
    BY <2>3, DiagnosticsAssumption
<1> HIDE DEF j
<1>6. DiagnosticsTypeOK'
  BY <1>1, <1>5, FS_RemoveElement DEF DiagnosticsInv, DiagnosticsTypeOK
<1>7. UploadIsNew'
  <2>1. total <= Cap
    BY <1>1, <1>3, <1>4, DiagnosticsAssumption DEF DiagnosticsInv, UploadIsNew
  <2> HIDE DEF total
  <2>2. QED
    BY <1>1, <1>5, <2>1 DEF DiagnosticsInv, UploadIsNew
<1>8. ListedIsCounted'
  <2>1. SUFFICES ASSUME ~torn
                 PROVE  /\ stored \subseteq listed \ {v} /\ Sum(size, listed \ {v}) <= total
                        /\ total <= used
    <3> HIDE DEF total, v
    <3> QED
      BY <1>1, <1>5 DEF ListedIsCounted
  <2>2. /\ stored \subseteq listed /\ Sum(size, listed) <= job.total /\ job.total <= used
        /\ v \in listed \ stored /\ used \in Nat /\ IsFiniteSet(listed) /\ listed \subseteq Bundles
    BY <1>1, <2>1 DEF DiagnosticsInv, DiagnosticsTypeOK, ListedIsCounted
  <2>3. \A x \in listed : size[x] \in Nat
    BY <1>2, <2>2
  <2> HIDE DEF v, total
  <2>4. Sum(size, listed) = size[v] + Sum(size, listed \ {v}) /\ Sum(size, listed) \in Nat
    BY <2>2, <2>3, SumFacts
  <2>5. IsFiniteSet(listed \ {v}) /\ Sum(size, listed \ {v}) \in Nat
    <3>1. IsFiniteSet(listed \ {v})
      BY <2>2, FS_RemoveElement
    <3>2. QED
      BY <2>3, <3>1, SumFacts
  <2>6. total = job.total - size[v]
    BY <1>3, <2>2, <2>4, <2>5 DEF total
  <2>7. QED
    BY <1>3, <1>4, <2>2, <2>4, <2>5, <2>6
<1>9. QED
  BY <1>6, <1>7, <1>8 DEF DiagnosticsInv

\* The new bundle's bytes go to the bucket.
LEMMA StoreStep ==
  ASSUME DiagnosticsInv, Store
  PROVE  DiagnosticsInv'
<1> DEFINE j == [job EXCEPT !.pc = "list"]
<1>1. /\ job # NoJob /\ job.pc = "check" /\ job.total + size[job.bundle] <= Cap
      /\ stored' = stored \cup {job.bundle}
      /\ ((job' = j /\ torn' = torn) \/ (job' = NoJob /\ torn' = TRUE))
      /\ listed' = listed /\ size' = size /\ used' = used
  BY DEF Store, Uploading
<1>2. job \in UploadJobs /\ job.bundle \in Bundles
  BY <1>1 DEF DiagnosticsInv, DiagnosticsTypeOK, UploadJobs
<1>3. /\ j \in UploadJobs /\ j # NoJob /\ j.bundle = job.bundle /\ j.pc = "list" /\ j.total = job.total
  BY <1>2, DiagnosticsAssumption DEF UploadJobs
<1> HIDE DEF j
<1>4. DiagnosticsTypeOK'
  BY <1>1, <1>2, <1>3, FS_AddElement DEF DiagnosticsInv, DiagnosticsTypeOK
<1>5. UploadIsNew'
  BY <1>1, <1>3 DEF DiagnosticsInv, UploadIsNew
<1>6. ListedIsCounted'
  BY <1>1, <1>3 DEF DiagnosticsInv, ListedIsCounted
<1>7. QED
  BY <1>4, <1>5, <1>6 DEF DiagnosticsInv

\* Its metadata is stored.
LEMMA ListStep ==
  ASSUME DiagnosticsInv, List
  PROVE  DiagnosticsInv'
<1> DEFINE j == [job EXCEPT !.pc = "count"]
           S == listed \cup {job.bundle}
<1>1. /\ job # NoJob /\ job.pc = "list" /\ listed' = S /\ job' = j
      /\ stored' = stored /\ size' = size /\ used' = used /\ torn' = torn
  BY DEF List, Uploading
<1>2. /\ job \in UploadJobs /\ job.bundle \in Bundles /\ size \in [Bundles -> Nat]
      /\ job.total \in Nat /\ size[job.bundle] \in Nat /\ IsFiniteSet(listed)
  BY <1>1 DEF DiagnosticsInv, DiagnosticsTypeOK, UploadJobs
<1>3. /\ j \in UploadJobs /\ j # NoJob /\ j.bundle = job.bundle /\ j.pc = "count" /\ j.total = job.total
  BY <1>2, DiagnosticsAssumption DEF UploadJobs
<1> HIDE DEF j
<1>4. IsFiniteSet(S) /\ S \subseteq Bundles /\ S \ {job.bundle} = listed /\ job.bundle \in S
  BY <1>1, <1>2, FS_AddElement DEF DiagnosticsInv, DiagnosticsTypeOK, UploadIsNew
<1>5. DiagnosticsTypeOK'
  BY <1>1, <1>3, <1>4 DEF DiagnosticsInv, DiagnosticsTypeOK
<1>6. UploadIsNew'
  BY <1>1, <1>3 DEF DiagnosticsInv, UploadIsNew
<1>7. ListedIsCounted'
  <2> HIDE DEF S
  <2>1. Sum(size, S) = size[job.bundle] + Sum(size, listed) /\ Sum(size, listed) \in Nat
    BY <1>2, <1>4, SumFacts DEF DiagnosticsInv, DiagnosticsTypeOK
  <2>2. SUFFICES ASSUME ~torn
                 PROVE  stored \subseteq S /\ Sum(size, S) <= job.total + size[job.bundle]
    BY <1>1, <1>3 DEF ListedIsCounted
  <2>3. stored \subseteq listed \cup {job.bundle} /\ Sum(size, listed) <= job.total
    BY <1>1, <2>2 DEF DiagnosticsInv, ListedIsCounted
  <2>4. QED
    BY <1>2, <2>1, <2>3 DEF S
<1>8. QED
  BY <1>5, <1>6, <1>7 DEF DiagnosticsInv

\* The rest.
LEMMA OtherDiagnosticsStep ==
  ASSUME DiagnosticsInv,
         SweepDone \/ OverCap \/ Count \/ Abandon \/ (\E b \in Bundles : Age(b)) \/ UNCHANGED diagVars
  PROVE  DiagnosticsInv'
<1>1. CASE SweepDone
  <2> DEFINE j == [job EXCEPT !.pc = "check"]
  <2>1. /\ job # NoJob /\ job.pc = "sweep" /\ job' = j
        /\ UNCHANGED <<stored, listed, size, used, torn>>
    BY <1>1 DEF SweepDone, Uploading
  <2>2. /\ j \in UploadJobs /\ j # NoJob /\ j.bundle = job.bundle /\ j.pc = "check" /\ j.total = job.total
    BY <2>1, DiagnosticsAssumption DEF UploadJobs, DiagnosticsInv, DiagnosticsTypeOK
  <2> HIDE DEF j
  <2>3. QED
    BY <2>1, <2>2 DEF DiagnosticsInv, DiagnosticsTypeOK, UploadIsNew, ListedIsCounted
<1>2. CASE OverCap \/ Abandon
  <2>1. /\ job # NoJob /\ job' = NoJob /\ UNCHANGED <<stored, listed, size, used>>
        /\ torn' \in BOOLEAN /\ (torn => torn') /\ (job.pc \in {"list", "count"} => torn')
    BY <1>2 DEF OverCap, Abandon, Uploading, DiagnosticsInv, DiagnosticsTypeOK
  <2>2. job.pc \in {"sweep", "forget", "check", "list", "count"} /\ job.total \in Nat /\ used \in Nat
    BY <2>1 DEF DiagnosticsInv, DiagnosticsTypeOK, UploadJobs
  <2>3. Sum(size, listed) \in Nat
    BY SumFacts DEF DiagnosticsInv, DiagnosticsTypeOK
  <2>4. DiagnosticsTypeOK' /\ UploadIsNew'
    BY <2>1 DEF DiagnosticsInv, DiagnosticsTypeOK, UploadIsNew
  <2>5. ListedIsCounted'
    <3>1. SUFFICES ASSUME ~torn' PROVE stored \subseteq listed /\ Sum(size, listed) <= used
      BY <2>1 DEF ListedIsCounted
    <3>2. stored \subseteq listed /\ Sum(size, listed) <= job.total /\ job.total <= used
      BY <2>1, <2>2, <3>1 DEF DiagnosticsInv, ListedIsCounted
    <3>3. QED
      BY <2>2, <2>3, <3>2
  <2>6. QED
    BY <2>4, <2>5 DEF DiagnosticsInv
<1>3. CASE Count
  <2>1. /\ job # NoJob /\ job.pc = "count" /\ job' = NoJob /\ used' = job.total + size[job.bundle]
        /\ UNCHANGED <<stored, listed, size, torn>>
    BY <1>3 DEF Count, Uploading
  <2>2. job.total \in Nat /\ size[job.bundle] \in Nat
    BY <2>1 DEF DiagnosticsInv, DiagnosticsTypeOK, UploadJobs
  <2>3. QED
    BY <2>1, <2>2 DEF DiagnosticsInv, DiagnosticsTypeOK, UploadIsNew, ListedIsCounted
<1>4. CASE (\E b \in Bundles : Age(b)) \/ UNCHANGED diagVars
  <2>1. UNCHANGED <<stored, listed, size, used, job, torn>>
    BY <1>4 DEF Age, diagVars
  <2>2. QED
    BY <2>1 DEF DiagnosticsInv, DiagnosticsTypeOK, UploadIsNew, ListedIsCounted
<1>5. QED
  BY <1>1, <1>2, <1>3, <1>4

\* Every step of the store keeps the invariant.
LEMMA DiagnosticsStep ==
  ASSUME DiagnosticsInv, [DiagnosticsNext]_diagVars
  PROVE  DiagnosticsInv'
BY UploadStep, SweepStep, ForgetStep, StoreStep, ListStep, OtherDiagnosticsStep DEF DiagnosticsNext

\* The store begins with the invariant.
LEMMA DiagnosticsStart ==
  ASSUME DiagnosticsInit
  PROVE  DiagnosticsInv
<1>1. DiagnosticsTypeOK
  BY FS_EmptySet DEF DiagnosticsInit, DiagnosticsTypeOK
<1>2. UploadIsNew
  BY DiagnosticsAssumption DEF DiagnosticsInit, UploadIsNew
<1>3. Sum(size, listed) = 0
  BY FS_EmptySet, SumFacts DEF DiagnosticsInit
<1>4. ListedIsCounted
  BY <1>3 DEF DiagnosticsInit, ListedIsCounted
<1>5. QED
  BY <1>1, <1>2, <1>4 DEF DiagnosticsInv

-----------------------------------------------------------------------------
(* The quotas (RateWindows).                                                *)

Windows == [start : Nat, count : Nat, seen : Nat]
RateTypeOK ==
    /\ now \in Nat /\ recovered \in Nat
    /\ windows \in [Sources -> Windows] /\ truth \in [Sources -> Windows] /\ window \in Windows
    /\ index \subseteq Sources /\ IsFiniteSet(index)

\* What is stored for a source is its window, or nothing once that is over; and what is
\* stored is in the index.
StoredIsTruth ==
    /\ \A s \in Sources :
        /\ truth[s].start <= truth[s].seen /\ truth[s].seen <= now
        /\ windows[s] = truth[s] \/ (windows[s].count = 0 /\ (truth[s].count = 0 \/ Over(truth[s])))
        /\ windows[s].count > 0 => s \in index
    /\ Cardinality(index) <= MaxSources

\* Calls that do not recover leave the reserve alone.
ReserveIsLeft == quota = "provider" => window.count <= Normal + recovered

RateInv == RateTypeOK /\ StoredIsTruth /\ ReserveIsLeft

\* Both promises of the quotas follow.
LEMMA RateInvSuffices ==
  ASSUME RateInv
  PROVE  SweepsForgetNothing /\ RecoveryKeepsItsReserve
<1>1. SweepsForgetNothing
  BY DEF RateInv, RateTypeOK, StoredIsTruth, SweepsForgetNothing
<1>2. RecoveryKeepsItsReserve
  BY RateAssumption DEF RateInv, RateTypeOK, ReserveIsLeft, RecoveryKeepsItsReserve, Windows, Ceiling
<1>3. QED
  BY <1>1, <1>2

\* The window that counts now, and the same with one request more.
LEMMA CurrentWindow ==
  ASSUME RateTypeOK, NEW w \in Windows
  PROVE  /\ Current(w) \in Windows
         /\ w.count = 0 \/ Over(w) =>
              Current(w).start = now /\ Current(w).count = 0 /\ Current(w).seen = now
         /\ ~(w.count = 0 \/ Over(w)) => Current(w) = w
<1>1. now \in Nat
  BY DEF RateTypeOK
<1>2. CASE w.count = 0 \/ Over(w)
  BY <1>1, <1>2 DEF Current, Windows
<1>3. CASE ~(w.count = 0 \/ Over(w))
  BY <1>3 DEF Current
<1>4. QED
  BY <1>2, <1>3

\* One request more in a window.
LEMMA CountedWindow ==
  ASSUME RateTypeOK, NEW w \in Windows
  PROVE  /\ Counted(w) \in Windows /\ Counted(w).start = w.start
         /\ Counted(w).count = w.count + 1 /\ Counted(w).seen = now
<1> DEFINE n == w.count + 1
<1>1. n \in Nat /\ now \in Nat
  BY DEF RateTypeOK, Windows
<1>2. Counted(w) = [w EXCEPT !.count = n, !.seen = now]
  BY DEF Counted, Windows
<1> HIDE DEF n
<1>3. /\ Counted(w) \in Windows /\ Counted(w).start = w.start /\ Counted(w).count = n
      /\ Counted(w).seen = now
  BY <1>1, <1>2 DEF Windows
<1>4. QED
  BY <1>3 DEF n

\* What a sweep leaves out is over.
LEMMA SweepsWhatIsOver ==
  ASSUME RateInv, NEW kept \in SUBSET index,
         \A t \in index \ kept : windows[t].count = 0 \/ Over(windows[t])
  PROVE  /\ Swept(kept) \in [Sources -> Windows]
         /\ \A t \in Sources :
              /\ Swept(kept)[t] = truth[t] \/
                   (Swept(kept)[t].count = 0 /\ (truth[t].count = 0 \/ Over(truth[t])))
              /\ Swept(kept)[t].count > 0 => t \in kept
<1>1. NoWindow \in Windows /\ NoWindow.count = 0
  BY DEF NoWindow, Windows
<1>2. windows \in [Sources -> Windows] /\ truth \in [Sources -> Windows]
  BY DEF RateInv, RateTypeOK
<1>3. Swept(kept) \in [Sources -> Windows]
  BY <1>1, <1>2 DEF Swept
<1>4. ASSUME NEW t \in Sources
      PROVE  /\ Swept(kept)[t] = truth[t] \/
                  (Swept(kept)[t].count = 0 /\ (truth[t].count = 0 \/ Over(truth[t])))
             /\ Swept(kept)[t].count > 0 => t \in kept
  <2>1. /\ windows[t] = truth[t] \/ (windows[t].count = 0 /\ (truth[t].count = 0 \/ Over(truth[t])))
        /\ windows[t].count > 0 => t \in index
    BY DEF RateInv, StoredIsTruth
  <2>2. CASE t \in index \ kept
    <3>1. Swept(kept)[t] = NoWindow
      BY <2>2 DEF Swept
    <3>2. windows[t].count = 0 \/ Over(windows[t])
      BY <2>2
    <3>3. truth[t].count = 0 \/ Over(truth[t])
      BY <2>1, <3>2
    <3>4. QED
      BY <1>1, <3>1, <3>3
  <2>3. CASE t \notin index \ kept
    BY <2>1, <2>3 DEF Swept
  <2>4. QED
    BY <2>2, <2>3
<1>5. QED
  BY <1>3, <1>4

\* A request that is refused.
LEMMA RefuseStep ==
  ASSUME RateInv, NEW kept \in SUBSET index, Refuse(kept),
         \A t \in index \ kept : windows[t].count = 0 \/ Over(windows[t])
  PROVE  RateInv'
<1>1. /\ windows' = Swept(kept) /\ UNCHANGED <<now, quota, index, window, recovered, truth>>
  BY DEF Refuse
<1>2. RateTypeOK'
  BY <1>1, SweepsWhatIsOver DEF RateInv, RateTypeOK
<1>3. StoredIsTruth'
  <2>1. /\ \A t \in Sources :
              /\ windows'[t] = truth[t] \/
                   (windows'[t].count = 0 /\ (truth[t].count = 0 \/ Over(truth[t])))
              /\ windows'[t].count > 0 => t \in index
    BY <1>1, SweepsWhatIsOver
  <2>2. QED
    BY <1>1, <2>1 DEF RateInv, StoredIsTruth, Over
<1>4. QED
  BY <1>1, <1>2, <1>3 DEF RateInv, ReserveIsLeft

\* A request that is let in: the window it counts in is the true one.
LEMMA AdmitStep ==
  ASSUME RateInv, NEW kept \in SUBSET index, NEW s \in Sources, NEW w, Admit(s, w, kept),
         \A t \in index \ kept : windows[t].count = 0 \/ Over(windows[t]),
         w = Current(windows[s]) \/ w = Current(Swept(kept)[s]),
         ~Full(s, kept)
  PROVE  RateInv'
<1>1. /\ windows' = [Swept(kept) EXCEPT ![s] = Counted(w)] /\ index' = kept \cup {s}
      /\ truth' = [truth EXCEPT ![s] = Counted(Current(truth[s]))]
      /\ UNCHANGED <<now, quota, window, recovered>>
  BY DEF Admit
<1>2. /\ now \in Nat /\ windows \in [Sources -> Windows] /\ truth \in [Sources -> Windows]
      /\ index \subseteq Sources /\ IsFiniteSet(index) /\ Swept(kept) \in [Sources -> Windows]
      /\ truth[s].start <= truth[s].seen /\ truth[s].seen <= now
      /\ truth[s] \in Windows /\ truth[s].start \in Nat /\ truth[s].seen \in Nat
  BY SweepsWhatIsOver DEF RateInv, RateTypeOK, StoredIsTruth, Windows
<1>3. w = Current(truth[s])
  <2>1. ASSUME NEW v \in Windows,
               v = truth[s] \/ (v.count = 0 /\ (truth[s].count = 0 \/ Over(truth[s])))
        PROVE  Current(v) = Current(truth[s])
    BY <2>1 DEF Current
  <2>2. windows[s] \in Windows /\ Swept(kept)[s] \in Windows
    BY <1>2
  <2>3. windows[s] = truth[s] \/ (windows[s].count = 0 /\ (truth[s].count = 0 \/ Over(truth[s])))
    BY DEF RateInv, StoredIsTruth
  <2>4. QED
    BY <2>1, <2>2, <2>3, SweepsWhatIsOver
<1>4. /\ w \in Windows /\ Counted(w) \in Windows /\ Counted(w).start = w.start
      /\ Counted(w).seen = now /\ w.start <= now
  <2>1. w \in Windows /\ (w = truth[s] \/ w.start = now)
    BY <1>2, <1>3, CurrentWindow DEF RateInv
  <2>2. w.start <= now
    BY <1>2, <2>1
  <2>3. QED
    BY <2>1, <2>2, CountedWindow DEF RateInv
<1>5. IsFiniteSet(index') /\ Cardinality(index') <= MaxSources /\ index' \subseteq Sources
  <2>1. IsFiniteSet(kept) /\ Cardinality(kept) <= Cardinality(index) /\ Cardinality(kept) \in Nat
        /\ Cardinality(index) \in Nat /\ Cardinality(index) <= MaxSources
    BY <1>2, FS_Subset, FS_CardinalityType DEF RateInv, StoredIsTruth
  <2>2. /\ IsFiniteSet(kept \cup {s})
        /\ Cardinality(kept \cup {s}) = IF s \in kept THEN Cardinality(kept) ELSE Cardinality(kept) + 1
    BY <2>1, FS_AddElement
  <2>3. s \in kept \/ Cardinality(kept) < MaxSources
    BY <2>1, RateAssumption DEF Full
  <2>4. QED
    BY <1>1, <1>2, <2>1, <2>2, <2>3, RateAssumption
<1>6. RateTypeOK'
  BY <1>1, <1>2, <1>3, <1>4, <1>5 DEF RateInv, RateTypeOK
<1>7. StoredIsTruth'
  <2>1. SUFFICES ASSUME NEW t \in Sources
                 PROVE  /\ truth'[t].start <= truth'[t].seen /\ truth'[t].seen <= now
                        /\ windows'[t] = truth'[t] \/ (windows'[t].count = 0 /\
                              (truth'[t].count = 0 \/ Over(truth'[t])))
                        /\ windows'[t].count > 0 => t \in index'
    BY <1>1, <1>5 DEF StoredIsTruth, Over
  <2>2. CASE t = s
    <3>1. windows'[t] = Counted(w) /\ truth'[t] = Counted(w) /\ t \in index'
      BY <1>1, <1>2, <1>3, <2>2
    <3>2. QED
      BY <1>2, <1>4, <3>1
  <2>3. CASE t # s
    <3>1. windows'[t] = Swept(kept)[t] /\ truth'[t] = truth[t] /\ (t \in kept => t \in index')
      BY <1>1, <1>2, <2>3
    <3>2. truth[t].start <= truth[t].seen /\ truth[t].seen <= now
      BY DEF RateInv, StoredIsTruth
    <3>3. QED
      BY <3>1, <3>2, SweepsWhatIsOver
  <2>4. QED
    BY <2>2, <2>3
<1>8. QED
  BY <1>1, <1>6, <1>7 DEF RateInv, ReserveIsLeft

\* What a window of a source tells: when the source was last let in, and since when.
LEMMA StoredIsOrdered ==
  ASSUME RateInv, NEW s \in Sources, windows[s].count > 0
  PROVE  /\ windows[s].start \in Nat /\ windows[s].seen \in Nat /\ now \in Nat
         /\ windows[s].start <= windows[s].seen /\ windows[s].seen <= now /\ s \in index
         /\ windows[s] \in Windows /\ Length \in Nat \ {0}
<1>1. windows[s] \in Windows /\ windows[s].count \in Nat /\ windows[s].count # 0
  BY DEF RateInv, RateTypeOK, Windows
<1>2. windows[s] = truth[s]
  BY <1>1 DEF RateInv, StoredIsTruth
<1>3. QED
  BY <1>1, <1>2, RateAssumption DEF RateInv, RateTypeOK, StoredIsTruth, Windows

\* A request from a source, and an enrollment from one.
LEMMA TakeSourceStep ==
  ASSUME RateInv, NEW s \in Sources, TakeSource(s)
  PROVE  RateInv'
<1> DEFINE w == Current(Swept(Unexpired)[s])
<1>1. /\ Unexpired \in SUBSET index
      /\ \A t \in index \ Unexpired : windows[t].count = 0 \/ Over(windows[t])
  <2>1. \A t \in index : windows[t].count \in Nat
    BY DEF RateInv, RateTypeOK, Windows
  <2>2. QED
    BY <2>1 DEF Unexpired
<1>2. Refuse(Unexpired) \/ (Admit(s, w, Unexpired) /\ ~Full(s, Unexpired))
  BY DEF TakeSource
<1>3. QED
  BY <1>1, <1>2, RefuseStep, AdmitStep

\* An enrolment takes from its source's window.
LEMMA EnrollFromStep ==
  ASSUME RateInv, NEW s \in Sources, EnrollFrom(s)
  PROVE  RateInv'
<1> DEFINE w == Current(windows[s])
<1>1. /\ Recent \in SUBSET index
      /\ \A t \in index \ Recent : windows[t].count = 0 \/ Over(windows[t])
  <2>1. ASSUME NEW t \in index \ Recent, windows[t].count # 0 PROVE Over(windows[t])
    <3>1. t \in Sources /\ windows[t].count > 0 /\ ~(now - windows[t].seen < Length)
      BY <2>1 DEF RateInv, RateTypeOK, Windows, Recent
    <3>2. QED
      BY <3>1, StoredIsOrdered DEF Over
  <2>2. QED
    BY <2>1 DEF Recent
<1>2. Refuse(index) => RateInv'
  BY RefuseStep
<1>3. Refuse(Recent) => RateInv'
  BY <1>1, RefuseStep
<1>4. ASSUME w.count # 0 PROVE ~Full(s, Recent)
  <2>1. windows[s] \in Windows /\ RateTypeOK
    BY DEF RateInv, RateTypeOK
  <2>2. ~(windows[s].count = 0 \/ Over(windows[s])) /\ windows[s].count \in Nat
    BY <1>4, <2>1, CurrentWindow DEF Windows
  <2>3. windows[s].count > 0
    BY <2>2
  <2>4. s \in Recent
    BY <2>2, <2>3, StoredIsOrdered, RateAssumption DEF Recent, Over
  <2>5. QED
    BY <2>4 DEF Full
<1>5. Refuse(index) \/ Refuse(Recent) \/ (Admit(s, w, Recent) /\ ~Full(s, Recent))
  BY <1>4 DEF EnrollFrom
<1>6. QED
  BY <1>1, <1>2, <1>3, <1>5, AdmitStep

\* The quotas with one window each, and the clock.
LEMMA OneWindowStep ==
  ASSUME RateInv, TakeInstallation \/ (\E lane \in {"normal", "recovery"} : TakeBudget(lane))
  PROVE  RateInv'
<1> DEFINE w == Current(window)
<1>1. /\ window' = Counted(w) /\ UNCHANGED <<now, quota, windows, index, truth>>
  BY DEF TakeInstallation, TakeBudget
<1>2. window \in Windows /\ RateTypeOK /\ recovered \in Nat
  BY DEF RateInv, RateTypeOK
<1>3. w \in Windows /\ Counted(w) \in Windows /\ Counted(w).count = w.count + 1 /\ w.count \in Nat
      /\ (w.count = 0 \/ w = window)
  BY <1>2, CurrentWindow, CountedWindow DEF Windows
<1> HIDE DEF w
<1>4. recovered' \in Nat
  BY <1>2 DEF TakeInstallation, TakeBudget
<1>5. RateTypeOK' /\ StoredIsTruth'
  BY <1>1, <1>3, <1>4 DEF RateInv, RateTypeOK, StoredIsTruth, Over
<1>6. ReserveIsLeft'
  <2>1. CASE TakeInstallation
    BY <1>1, <2>1 DEF TakeInstallation, ReserveIsLeft
  <2>2. ASSUME NEW lane \in {"normal", "recovery"}, TakeBudget(lane) PROVE ReserveIsLeft'
    <3>1. /\ quota = "provider" /\ w.count < Ceiling(lane)
          /\ recovered' = (IF w.count = 0 THEN 0 ELSE recovered) + (IF lane = "recovery" THEN 1 ELSE 0)
      BY <2>2 DEF TakeBudget, w
    <3>2. w.count # 0 => w.count <= Normal + recovered
      BY <1>3, <3>1 DEF RateInv, ReserveIsLeft
    <3>3. Normal \in Nat
      BY RateAssumption
    <3>4. w.count + 1 <= Normal + recovered'
      <4>1. CASE lane = "normal"
        BY <1>2, <1>3, <3>1, <3>2, <3>3, <4>1 DEF Ceiling
      <4>2. CASE lane = "recovery"
        BY <1>2, <1>3, <3>1, <3>2, <3>3, <4>2
      <4>3. QED
        BY <4>1, <4>2
    <3>5. QED
      BY <1>1, <1>3, <3>4 DEF ReserveIsLeft
  <2>3. QED
    BY <2>1, <2>2
<1>7. QED
  BY <1>5, <1>6 DEF RateInv

\* Every step of the quotas keeps the invariant.
LEMMA RateStep ==
  ASSUME RateInv, [RateNext]_rateVars
  PROVE  RateInv'
<1>1. CASE Tick
  <2>1. now' = now + 1 /\ UNCHANGED <<quota, windows, index, window, recovered, truth>> /\ now \in Nat
    BY <1>1 DEF Tick, RateInv, RateTypeOK
  <2>2. RateTypeOK'
    BY <2>1 DEF RateInv, RateTypeOK
  <2>3. StoredIsTruth'
    <3>1. \A s \in Sources : truth[s].start \in Nat /\ truth[s].seen \in Nat
      BY DEF RateInv, RateTypeOK, Windows
    <3>2. \A s \in Sources : Over(truth[s]) => now' - truth[s].start >= Length
      BY <2>1, <3>1, RateAssumption DEF Over
    <3>3. \A s \in Sources : truth[s].seen <= now'
      BY <2>1, <3>1 DEF RateInv, StoredIsTruth
    <3>4. QED
      BY <2>1, <3>2, <3>3 DEF RateInv, StoredIsTruth, Over
  <2>4. QED
    BY <2>1, <2>2, <2>3 DEF RateInv, ReserveIsLeft
<1>2. CASE UNCHANGED rateVars
  BY <1>2 DEF rateVars, RateInv, RateTypeOK, StoredIsTruth, ReserveIsLeft, Over
<1>3. QED
  BY <1>1, <1>2, TakeSourceStep, EnrollFromStep, OneWindowStep DEF RateNext

\* The quotas begin with the invariant.
LEMMA RateStart ==
  ASSUME RateInit
  PROVE  RateInv
<1>1. NoWindow \in Windows /\ NoWindow.count = 0 /\ NoWindow.start = 0 /\ NoWindow.seen = 0
  BY DEF NoWindow, Windows
<1>2. RateTypeOK
  BY <1>1, FS_EmptySet DEF RateInit, RateTypeOK
<1>3. StoredIsTruth
  BY <1>1, FS_EmptySet, RateAssumption DEF RateInit, StoredIsTruth
<1>4. ReserveIsLeft
  BY <1>1, RateAssumption DEF RateInit, ReserveIsLeft
<1>5. QED
  BY <1>2, <1>3, <1>4 DEF RateInv

-----------------------------------------------------------------------------
(* Both parts hold with the others beside them (MCControlPlane).            *)

\* The inductive invariant holds of every state.
THEOREM LimitsInvariant == MCSpec => [](DiagnosticsInv /\ RateInv)
<1>1. MCInit => DiagnosticsInv /\ RateInv
  BY DiagnosticsStart, RateStart DEF MCInit
<1>2. DiagnosticsInv /\ RateInv
        /\ [MCNext]_<<focus, cpVars, deskVars, diagVars, rateVars, brokerVars>>
        => DiagnosticsInv' /\ RateInv'
  <2>1. SUFFICES ASSUME DiagnosticsInv, RateInv,
                        [MCNext]_<<focus, cpVars, deskVars, diagVars, rateVars, brokerVars>>
                 PROVE  [DiagnosticsNext]_diagVars /\ [RateNext]_rateVars
    BY DiagnosticsStep, RateStep
  <2>2. QED
    BY <2>1 DEF MCNext, Moves
<1>3. QED
  BY <1>1, <1>2, PTL DEF MCSpec

\* For any number of bundles, sources and requests and whatever the limits: as long as no
\* upload stopped between the bucket and the running total, the bucket never holds more than
\* the total says and the total stays below the cap, whatever sweeps failed; a source's window
\* counts every request let in since it began, and all that is stored is in the bounded index;
\* and a recovery call is refused only when recovery has used its reserve
\* (control-plane/src/index.ts, uploadDiagnostics, takeReleaseRate, enroll, takeProviderBudget).
THEOREM LimitsAlwaysHold == MCSpec => []LimitsHold
<1>1. DiagnosticsInv /\ RateInv => LimitsHold
  BY DiagnosticsInvSuffices, RateInvSuffices DEF LimitsHold
<1>2. QED
  BY <1>1, LimitsInvariant, PTL
=============================================================================
