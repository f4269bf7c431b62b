------------------------------- MODULE Search -------------------------------
(***************************************************************************)
(* One search request: the lookups it makes of the providers, in turn or   *)
(* at once, and the answer it makes of their answers                       *)
(* (src/src/core.ts, over src/src/providers).                              *)
(*                                                                         *)
(* A lookup is named for the call that makes it; got holds its answer.     *)
(* What a handler has asked so far follows from the answers it has, since  *)
(* it asks the next lookup in the same turn in which an answer arrives.    *)
(* A request gives the parameters in `given', where acoustidApiKey stands  *)
(* for the key that the deployment has, or has not.  Albums, artists and   *)
(* lyrics are of the second version, whose answer a schema checks last;    *)
(* the first makes the same lookups.  Deadlines appear as what they can    *)
(* make of a lookup: its transport answers a failure, or, while it waits   *)
(* for another replica, rejects.                                           *)
(***************************************************************************)
EXTENDS Identity

CONSTANTS
  Requests,      \* records [endpoint, given]
  Answers,       \* Answers[c]: the answers lookup c may get
  Limit,         \* the number of results asked for
  AskedRelease, AskedGroup,  \* the identifiers an album request may give
  PrintDuration, \* the duration given with a fingerprint
  MaxWords       \* the length that word lyrics are cut to

Parallel == {"exact", "search"}
WordLookups == {"neSong", "neLyric", "qqSong", "qqLyric", "kuSong", "kuFind", "kuLoad"}
\* The lookups that are given the summary of attempts.
Base == {"byId", "byIsrc", "byPrint", "byText", "itunes",
         "release", "releaseGroup", "groupSearch",
         "artistById", "artistSearch", "neteaseArtist", "qqArtist"} \cup Parallel
MusicBrainzLookups == {"byId", "byIsrc", "byText"}
Calls == Base \cup WordLookups \cup {"artistDetail", "wikidata", "profile", "intro"}

Success(data) == [kind |-> "success", reached |-> TRUE, data |-> data]
NotFound == [kind |-> "not_found", reached |-> TRUE, data |-> <<>>]
Failure == [kind |-> "failure", reached |-> FALSE, data |-> <<>>]
\* A body its schema refuses: requestJson has counted it as reached before.
Malformed == [kind |-> "failure", reached |-> TRUE, data |-> <<>>]
Thrown == [kind |-> "thrown", reached |-> FALSE, data |-> <<>>]
Unasked == [kind |-> "unasked", reached |-> FALSE, data |-> <<>>]

\* A duration is whole if it is a safe integer of milliseconds, as the schemas want it.
MusicBrainzResults ==
  [id : Ids, title : Titles, artist : Texts, duration : Nat, whole : BOOLEAN,
   isrcs : SUBSET Ids, score : Scores]
FingerprintResults == [acoustId : Ids, id : Ids, title : Titles, artist : Texts, score : Scores]
ItunesResults == [id : Ids, title : Titles, artist : Texts, duration : Nat, whole : BOOLEAN]
AlbumResults == [release : Nat, releaseGroup : Nat, score : Scores]
\* The id may be missing, or else the name; every id of MusicBrainz is a uuid.
ArtistResults(provider, fields, linked) ==
  [provider : {provider}, id : Nat, named : BOOLEAN, fields : SUBSET fields, wikidata : linked]
LyricsResults == [text : BOOLEAN, whole : BOOLEAN]

\* What a lookup lists.  An artist of Netease without a picture is taken for one of
\* MusicBrainz.  Of songs, a word lookup lists those with the title asked for; the
\* last lookup of a chain, the length of the words.
Results(c) ==
  CASE c \in MusicBrainzLookups -> MusicBrainzResults
    [] c = "byPrint" -> FingerprintResults
    [] c = "itunes" -> ItunesResults
    [] c \in {"release", "releaseGroup", "groupSearch"} -> AlbumResults
    [] c \in {"artistById", "artistSearch", "artistDetail"} ->
         ArtistResults("musicbrainz", {}, BOOLEAN)
    [] c = "neteaseArtist" -> ArtistResults("netease", {"avatar"}, {FALSE})
                              \cup ArtistResults("musicbrainz", {}, {FALSE})
    [] c = "qqArtist" -> ArtistResults("qqmusic", {"avatar"}, {FALSE})
    [] c \in {"wikidata", "profile", "intro"} -> SUBSET {"avatar", "description", "biography"}
    [] c \in Parallel -> LyricsResults
    [] c \in WordLookups -> Nat

ASSUME AnswersAssumption ==
  \A c \in Calls : Answers[c] # {} /\ \A a \in Answers[c] :
    /\ a = Success(a.data) \/ a \in {NotFound, Failure, Malformed, Thrown}
    /\ a.data \in Seq(Results(c))

Endpoints == {"recordings", "recordings2", "albums", "artists", "lyrics"}
Parameters == {"recordingMbid", "isrc", "fingerprint", "fingerprintDuration", "acoustidApiKey",
               "title", "releaseMbid", "releaseGroupMbid", "artistMbid", "name", "neteaseSongId"}

ASSUME RequestsAssumption ==
  /\ Requests \subseteq [endpoint : Endpoints, given : SUBSET Parameters]
  /\ Limit \in Nat \ {0}
  /\ AskedGroup \in Ids
  /\ PrintDuration \in Nat
  /\ MaxWords \in Nat

VARIABLES request, got, status
vars == <<request, got, status>>

Given(p) == p \in request.given
Data(c) == got[c].data

\* What the providers list becomes evidence; a result without a title does not.
Titled(evidence) == Picked(evidence, {i \in DOMAIN evidence : evidence[i].title.text # ""})

MapMbRecordings(values, exact) ==
  Titled([i \in DOMAIN values |->
    [provider |-> "musicbrainz", id |-> values[i].id, title |-> values[i].title,
     artist |-> values[i].artist, duration |-> values[i].duration, whole |-> values[i].whole,
     mbid |-> values[i].id, isrcs |-> values[i].isrcs, verified |-> FALSE,
     acoustId |-> NoId, score |-> IF exact THEN 10000 ELSE values[i].score]])

\* A fingerprint is found with several recordings, which take its duration.
AcoustIdLookup(results) ==
  Titled([i \in DOMAIN results |->
    [provider |-> "acoustid", id |-> results[i].acoustId, title |-> results[i].title,
     artist |-> results[i].artist, duration |-> PrintDuration, whole |-> TRUE,
     mbid |-> results[i].id, isrcs |-> {}, verified |-> TRUE,
     acoustId |-> results[i].acoustId, score |-> results[i].score]])

ItunesLookup(results) ==
  Titled([i \in DOMAIN results |->
    [provider |-> "itunes", id |-> results[i].id, title |-> results[i].title,
     artist |-> results[i].artist, duration |-> results[i].duration, whole |-> results[i].whole,
     mbid |-> NoId, isrcs |-> {}, verified |-> FALSE,
     acoustId |-> NoId, score |-> Max({0, 7500 - 100 * (i - 1)})]])

\* What a lookup adds to the values of its endpoint.
Found(c) == CASE c \in {"byId", "byIsrc"} -> MapMbRecordings(Data(c), TRUE)
              [] c = "byText" -> MapMbRecordings(Data(c), FALSE)
              [] c = "byPrint" -> AcoustIdLookup(Data(c))
              [] c = "itunes" -> ItunesLookup(Data(c))
              [] OTHER -> Data(c)
Returned(c) == got[c].kind \notin {"unasked", "thrown"}

\* Mutant: only a lookup that reached its provider is followed by the next.
FallbackIfReached(lookups) ==
  {lookups[i] : i \in {i \in DOMAIN lookups : \A j \in 1 .. i - 1 :
                         got[lookups[j]].reached /\ Found(lookups[j]) = <<>>}}

\* Each lookup is made only if those before it have found nothing.
Fallback(lookups) ==
  {lookups[i] : i \in {i \in DOMAIN lookups : \A j \in 1 .. i - 1 :
                         Returned(lookups[j]) /\ Found(lookups[j]) = <<>>}}
\* Each lookup is made when those before it have returned.
InTurn(lookups) ==
  {lookups[i] : i \in {i \in DOMAIN lookups : \A j \in 1 .. i - 1 : Returned(lookups[j])}}
\* Each lookup needs what the one before it has found.
Chain(lookups) ==
  {lookups[i] : i \in {i \in DOMAIN lookups : \A j \in 1 .. i - 1 : Data(lookups[j]) # <<>>}}

If(p, lookups) == IF Given(p) THEN lookups ELSE <<>>

-----------------------------------------------------------------------------
(* Recordings: the first version falls back, the second asks everything. *)

Strong ==
  If("recordingMbid", <<"byId">>) \o If("isrc", <<"byIsrc">>)
  \o If("fingerprint", If("fingerprintDuration", If("acoustidApiKey", <<"byPrint">>)))

Evidence == Found("byId") \o Found("byIsrc") \o Found("byPrint")
            \o Found("byText") \o Found("itunes")

RecordingLookups == Strong \o If("title", <<"byText", "itunes">>)

RecordingsV1Due == Fallback(RecordingLookups)
RecordingsV2Due ==
  LET strong == ToSet(Strong)
      supplemented == /\ \A c \in strong : Returned(c)
                      /\ Given("title") \/ \E c \in strong : Found(c) # <<>>
  IN  InTurn(Strong) \cup (IF supplemented THEN {"byText", "itunes"} ELSE {})

RecordingsV1 == Cut(DedupeRecordings(Evidence), Limit)
RecordingsV2 == Cut(ResolveCanonicalRecordings(Evidence), Limit)

-----------------------------------------------------------------------------
(* Albums: one lookup, the most exact the request allows. *)

AlbumLookups ==
  IF Given("releaseMbid") THEN <<"release">>
  ELSE IF Given("releaseGroupMbid") THEN <<"releaseGroup">>
  ELSE If("title", <<"groupSearch">>)

Albums ==
  LET asked == {i \in DOMAIN Data("release") : Data("release")[i].release = AskedRelease}
      expected == IF Given("releaseGroupMbid") THEN AskedGroup ELSE NoId
  IN  IF asked # {} THEN CanonicalizeRelease(Data("release")[Min(asked)], expected)
      ELSE CanonicalizeReleaseGroups(Data("releaseGroup"), TRUE, Limit)
           \o CanonicalizeReleaseGroups(Data("groupSearch"), FALSE, Limit)

-----------------------------------------------------------------------------
(* Artists: lookups by falling back, then the first artist is enriched. *)

ArtistLookups ==
  If("artistMbid", <<"artistById">>)
  \o If("name", <<"artistSearch", "neteaseArtist", "qqArtist">>)

\* The first artist found by name is looked up, if it has an id.
DetailDue == Data("artistSearch") # <<>> /\ Data("artistSearch")[1].id # NoId

\* That detail replaces it.
ArtistValues ==
  LET found == Data("artistSearch")
  IN  IF Data("artistDetail") # <<>> THEN Data("artistDetail") \o Tail(found)
      ELSE Data("artistById") \o found \o Data("neteaseArtist") \o Data("qqArtist")

\* Artists without an id or a name are dropped, after the fallbacks were decided.
Artists == Picked(ArtistValues, {i \in DOMAIN ArtistValues :
                                   ArtistValues[i].id # NoId /\ ArtistValues[i].named})

\* Every lookup that Artists depends on has returned.
ArtistsKnown ==
  /\ \A c \in Fallback(ArtistLookups) : Returned(c)
  /\ DetailDue => Returned("artistDetail")

\* The profile is asked for always, since no artist has a biography yet.
ArtistsDue ==
  LET enriched == ArtistsKnown /\ Artists # <<>>
      linked == enriched /\ Artists[1].wikidata
  IN  Fallback(ArtistLookups)
      \cup (IF DetailDue THEN {"artistDetail"} ELSE {})
      \cup (IF linked THEN {"wikidata"} ELSE {})
      \cup (IF enriched /\ (linked => Returned("wikidata"))
              THEN Chain(<<"profile", "intro">>) ELSE {})

Offered(c) == IF Data(c) = <<>> THEN {} ELSE Data(c)[1]
WikidataArtistProfile == Offered("wikidata")
\* The match by name gives an avatar, its introduction the rest.
NeteaseArtistProfile == Offered("profile") \cup Offered("intro")

\* What a source says it gave.
Identified(provider) ==
  <<[provider |-> provider, role |-> "identity", fields |-> {"name"}]>>
Enriched(provider, fields) ==
  IF fields = {} THEN <<>>
  ELSE <<[provider |-> provider, role |-> "enrichment", fields |-> fields]>>

\* Mutant: the profile's fields replace and are claimed over those there were.
FirstArtistOverwritten ==
  LET wiki == WikidataArtistProfile
      supplement == NeteaseArtistProfile
  IN  [fields |-> Artists[1].fields \cup wiki \cup supplement,
       enrichments |-> Enriched("wikidata", wiki) \o Enriched("netease", supplement)]

\* The fields that the first artist ends with, and where it has them from.
FirstArtist ==
  LET wiki == WikidataArtistProfile
      had == IF Artists[1].wikidata THEN wiki ELSE Artists[1].fields
      supplement == NeteaseArtistProfile \ had
  IN  [fields |-> had \cup supplement,
       enrichments |-> Enriched("wikidata", wiki) \o Enriched("netease", supplement)]

\* Sources are kept by the artists' ids: of artists with one id the last is the
\* identity of all, and what enriched the first is a source of its namesakes too.
SourceMetadata(id) ==
  LET same == {i \in DOMAIN Artists : Artists[i].id = id}
  IN  Identified(Artists[Max(same)].provider)
      \o (IF id = Artists[1].id THEN FirstArtist.enrichments ELSE <<>>)

ArtistsV2 ==
  [i \in DOMAIN Artists |->
     [fields |-> IF i = 1 THEN FirstArtist.fields ELSE Artists[i].fields,
      sources |-> SourceMetadata(Artists[i].id)]]

-----------------------------------------------------------------------------
(* Lyrics: two lookups of the text and three chains for the words, at once. *)

NeteaseChain == IF Given("neteaseSongId") THEN <<"neLyric">> ELSE <<"neSong", "neLyric">>
QqMusicChain == <<"qqSong", "qqLyric">>
KugouChain == <<"kuSong", "kuFind", "kuLoad">>

LyricsDue == Parallel \cup Chain(NeteaseChain) \cup Chain(QqMusicChain) \cup Chain(KugouChain)

\* The lyrics that are not empty, the exact ones first.
Full(c) == Picked(Data(c), {i \in DOMAIN Data(c) : Data(c)[i].text})
Lyrics == Full("exact") \o Full("search")

WordsOf(source, last) ==
  IF Data(last) = <<>> THEN <<>>
  ELSE <<[source |-> source, length |-> Min({Data(last)[1], MaxWords})]>>

\* What the chains brought, in the order of preference.
WordResults == WordsOf("netease", "neLyric") \o WordsOf("qqmusic", "qqLyric")
               \o WordsOf("kugou", "kuLoad")

\* Mutant: the first words that are there are taken.
SelectFirstWordLyrics == Cut(WordResults, 1)

ByLength(words) == {p \in Pairs(words) : words[p[1]].length > words[p[2]].length}
SelectBestWordLyrics == Cut(Sorted(WordResults, ByLength(WordResults)), 1)

\* The answer: the first lyrics that are not empty, with the best words.
LyricsV2 ==
  LET words == SelectBestWordLyrics
  IN  [match |-> IF Full("exact") # <<>> THEN "exact_metadata" ELSE "search",
       words |-> words,
       sources |-> Identified("lrclib")
                   \o (IF words = <<>> THEN <<>>
                       ELSE Enriched(words[1].source, {"wordLyrics"}))]

-----------------------------------------------------------------------------
(* Asking and answering. *)

\* A word chain that throws is caught and brings nothing; nothing else is.
Uncaught == {c \in Calls \ WordLookups : got[c] = Thrown}

Due == CASE request.endpoint = "recordings" -> RecordingsV1Due
         [] request.endpoint = "recordings2" -> RecordingsV2Due
         [] request.endpoint = "albums" -> ToSet(AlbumLookups)
         [] request.endpoint = "artists" -> ArtistsDue
         [] request.endpoint = "lyrics" -> LyricsDue

\* What names nothing to look for: a fingerprint needs its duration only in the second version.
Primary == CASE request.endpoint \in {"recordings", "recordings2"} ->
                  {"title", "recordingMbid", "isrc", "fingerprint"}
             [] request.endpoint = "albums" -> {"title", "releaseMbid", "releaseGroupMbid"}
             [] request.endpoint = "artists" -> {"name", "artistMbid"}
             [] request.endpoint = "lyrics" -> {"title"}

Missing ==
  \/ request.given \cap Primary = {}
  \/ request.endpoint = "recordings2" /\ Given("fingerprint") /\ ~Given("fingerprintDuration")

Open == IF status # 0 \/ Missing \/ Uncaught # {} THEN {} ELSE {c \in Due : got[c] = Unasked}

Body == CASE request.endpoint = "recordings" -> RecordingsV1
          [] request.endpoint = "recordings2" -> RecordingsV2
          [] request.endpoint = "albums" -> Albums
          [] request.endpoint = "artists" -> Artists
          [] request.endpoint = "lyrics" -> Lyrics

\* Mutant: the enrichments are given the summary, too.
AttemptedAny == {c \in Calls : Returned(c)}

Attempted == {c \in Base : Returned(c)}
Reachable == {c \in Attempted : got[c].reached}

\* Lyrics are refused whenever nothing was reached, the others if nothing was found too.
Refused ==
  LET found == IF request.endpoint = "artists" THEN ArtistValues ELSE Body
  IN  Reachable = {} /\ Attempted # {} /\ (request.endpoint = "lyrics" \/ found = <<>>)

\* The schema of an answer throws over a duration that is not whole; what else it
\* asks for, and all that those of albums and artists do, holds of every answer.
SchemaRefuses ==
  \/ /\ request.endpoint = "recordings2"
     /\ \E record \in ToSet(RecordingsV2) :
          record.evidence[1].duration > 0 /\ ~record.evidence[1].whole
  \/ /\ request.endpoint = "lyrics"
     /\ Lyrics # <<>> /\ ~Lyrics[1].whole

\* What is not caught nearer ends as a 502: in handleGatewayRequest for the first
\* version, in the server for the second.
BadGateway == Uncaught # {} \/ Refused \/ SchemaRefuses

Answer ==
  /\ \E c \in Open : \E a \in Answers[c] : got' = [got EXCEPT ![c] = a]
  /\ UNCHANGED <<request, status>>

Respond ==
  /\ status = 0 /\ Open = {}
  /\ status' = IF Missing THEN 400 ELSE IF BadGateway THEN 502 ELSE 200
  /\ UNCHANGED <<request, got>>

Arrive(r) ==
  /\ status # 0
  /\ request' = r
  /\ got' = [c \in Calls |-> Unasked]
  /\ status' = 0

Init == /\ request \in Requests
        /\ got = [c \in Calls |-> Unasked]
        /\ status = 0

Next == Answer \/ Respond \/ \E r \in Requests : Arrive(r)

Spec == Init /\ [][Next]_vars

-----------------------------------------------------------------------------
(* Properties. *)

Ok == status = 200

\* 502 says exactly that a lookup rejected, or that lookups were made for the
\* base result and all of them failed, or that the answer was not one its schema
\* allows: neither an enrichment nor one answered lookup among failed ones is
\* turned into a failure by an answer, whatever that is.  An enrichment of an
\* artist that rejects does make a 502, which README.md:31 denies: its deadline
\* can be such a rejection.
BadGatewayIsEarned ==
  status \in {200, 502} =>
    (status = 502 <=>
       \/ \E c \in Calls \ WordLookups : got[c] = Thrown
       \/ /\ \E c \in Base : got[c] # Unasked
          /\ \A c \in Base : got[c] \in {Unasked, Failure}
       \/ SchemaRefuses)

\* An empty answer is given only after every lookup that the parameters, and the
\* deployment's key, allow has been made, or else some artists were found and none
\* of them has both an id and a name: these are dropped too late to fall back.
NoFallbackSkipped ==
  Ok /\ Body = <<>> =>
    \/ \A c \in ToSet(CASE request.endpoint = "artists" -> ArtistLookups
                        [] request.endpoint = "albums" -> AlbumLookups
                        [] request.endpoint = "lyrics" -> <<"exact", "search">>
                        [] OTHER -> RecordingLookups) :
         Returned(c)
    \/ request.endpoint = "artists" /\ ArtistValues # <<>>

\* Results that name different recordings are never made one: within a record
\* no two results differ in their MBID, and those joined by their texts, with the
\* first, to which they were compared, have the same version and lie at most
\* three seconds apart, also from each other.
RecordingsAreApart(records) ==
  \A r \in ToSet(records) :
    LET joined == {r.evidence[1]} \cup {v \in ToSet(r.evidence) : v.mbid = NoId}
    IN  /\ \A v, w \in ToSet(r.evidence) : NoId \notin {v.mbid, w.mbid} => v.mbid = w.mbid
        /\ \A v, w \in joined :
             v.title.versions = w.title.versions /\ v.duration - w.duration \in -Apart .. Apart

\* Every result is in exactly one record, whatever lookups repeated each other's.
RecordsPartition(records, evidence) ==
  /\ UNION {ToSet(r.evidence) : r \in ToSet(records)} = ToSet(evidence)
  /\ Cardinality(UNION {{r} \X DOMAIN records[r].evidence : r \in DOMAIN records}) = Len(evidence)

\* iTunes lists each track once.
TracksAreListedOnce(evidence) ==
  \A i, j \in DOMAIN evidence :
    i # j /\ evidence[i].provider = "itunes" /\ evidence[j].provider = "itunes" =>
      evidence[i].id # evidence[j].id

\* A provider describes a recording, or one of a fingerprint, in one way.  No code
\* sees to it: its answers are cached apart and age apart.
ProvidersAgree(evidence) ==
  \A v, w \in ToSet(evidence) :
    /\ v.mbid # NoId
    /\ v.provider = w.provider /\ v.id = w.id /\ v.mbid = w.mbid
    => v.title = w.title /\ v.artist = w.artist /\ v.duration = w.duration

CanonicalIds(records) == {r.canonicalId : r \in ToSet(records)}

\* What the evidence of several providers becomes, however they contradict
\* themselves: recordings told apart by what identifies them, with nothing lost or
\* doubled.  They have different ids if iTunes lists no track twice, and the same
\* ones when the results come in reverse if besides no provider contradicts itself.
RecordingsAreResolved ==
  Ok /\ request.endpoint = "recordings2" =>
    \A evidence \in {Evidence} : \A records \in {ResolveCanonicalRecordings(evidence)} :
      /\ RecordingsAreApart(records)
      /\ RecordsPartition(records, evidence)
      /\ TracksAreListedOnce(evidence) =>
           /\ \A i, j \in DOMAIN records : i # j => records[i].canonicalId # records[j].canonicalId
           /\ ProvidersAgree(evidence) =>
                CanonicalIds(ResolveCanonicalRecordings(Reverse(evidence))) = CanonicalIds(records)

\* The first version answers each key once, with the best score it was found with.
BestIsKept ==
  Ok /\ request.endpoint = "recordings" =>
    LET kept == DedupeRecordings(Evidence)
    IN  \A v \in ToSet(Evidence) :
          \E i \in DOMAIN kept :
            /\ DedupeKey(kept[i]) = DedupeKey(v) /\ kept[i].score >= v.score
            /\ \A j \in DOMAIN kept \ {i} : DedupeKey(kept[j]) # DedupeKey(v)

\* Albums are one for each release group, the most certain first, and a
\* release of another group than the one given is not answered.
AlbumsAreApart ==
  Ok /\ request.endpoint = "albums" =>
    /\ \A i, j \in DOMAIN Albums : i < j =>
         /\ Albums[i].releaseGroup # Albums[j].releaseGroup
         /\ Albums[i].confidence >= Albums[j].confidence
    /\ \A a \in ToSet(Data("groupSearch")) : \A i \in DOMAIN Albums :
         a.releaseGroup = Albums[i].releaseGroup => a.score <= Albums[i].confidence
    /\ {"releaseMbid", "releaseGroupMbid"} \subseteq request.given =>
         \A i \in DOMAIN Albums : Albums[i].releaseGroup = AskedGroup

\* Of results for one recording or one release group, the best is answered, once.
BestIsAnswered == BestIsKept /\ AlbumsAreApart

\* Every field that an artist was enriched with is attributed to exactly one of the
\* answer's enrichments, and no field that it had; an enrichment is named for such a
\* field only, and of the first artist, the one asked about: another artist shows
\* it only if it has the same id.
EveryFieldHasItsSource ==
  Ok /\ request.endpoint = "artists" /\ Artists # <<>> =>
    LET fields == ArtistsV2[1].fields
        Enrichments(i) == Tail(ArtistsV2[i].sources)
    IN  /\ \A f \in fields :
             Cardinality({e \in ToSet(Enrichments(1)) : f \in e.fields})
               = IF f \in Artists[1].fields THEN 0 ELSE 1
        /\ \A e \in ToSet(Enrichments(1)) : e.fields # {} /\ e.fields \subseteq fields
        /\ \A i \in DOMAIN ArtistsV2 : Enrichments(i) # <<>> => Artists[i].id = Artists[1].id

\* The words are the longest that any chain brought, the preferred source's
\* among equals, whichever chain ended first or failed, and its source is
\* named; lyrics that match exactly come before those a search found.
WordsAreBest ==
  Ok /\ request.endpoint = "lyrics" /\ Lyrics # <<>> =>
    /\ LyricsV2.match = "search" => \A l \in ToSet(Data("exact")) : ~l.text
    /\ (LyricsV2.words = <<>>) <=> (WordResults = <<>>)
    /\ \A i \in DOMAIN WordResults :
         LET best == LyricsV2.words[1]
         IN  /\ \E e \in ToSet(LyricsV2.sources) : e.provider = best.source /\ e.role = "enrichment"
             /\ \/ best.length > WordResults[i].length
                \/ best.length = WordResults[i].length
                   /\ \E j \in 1..i : WordResults[j] = best

\* README.md:31: all base lookups failed, so the answer is 502.
AllFailedIsBadGateway ==
  Ok => ~(/\ \E c \in Base : got[c] # Unasked
          /\ \A c \in Base : got[c].kind \in {"unasked", "failure"})
=============================================================================
