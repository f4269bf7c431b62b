------------------------------ MODULE MCSearch ------------------------------
(* Search on small instances: few results, chosen to meet and to conflict. *)
EXTENDS Search

Words == {"halo", "hallo", "other", ""}
MCSimilarity == [p \in Words \X Words |->
  IF "" \in {p[1], p[2]} THEN 0 ELSE IF p[1] = p[2] THEN 10000 ELSE IF "other" \in {p[1], p[2]} THEN 2000 ELSE 9500]

\* Recordings.  Durations lie so that some results are just near enough.
LOCAL Title(text, versions) == [text |-> text, versions |-> versions]
LOCAL Mb(id, title, isrcs, score) ==
  [id |-> id, title |-> title, artist |-> "halo", duration |-> 100, whole |-> TRUE,
   isrcs |-> isrcs, score |-> score]
LOCAL Printed(acoustId, id, score) ==
  [acoustId |-> acoustId, id |-> id, title |-> Title("halo", {}), artist |-> "halo", score |-> score]
LOCAL Song(id, title, duration) ==
  [id |-> id, title |-> title, artist |-> "halo", duration |-> duration, whole |-> TRUE]
LOCAL Broken(result) == [result EXCEPT !.whole = FALSE]

LOCAL halo == Title("halo", {})
LOCAL live == Title("halo", {"live"})
LOCAL near == <<Song(1, halo, 100), Song(2, halo, 103), Song(3, Title("hallo", {}), 97)>>
LOCAL far == <<Song(4, halo, 97), Song(5, live, 100), Song(6, halo, 101), Song(7, halo, 94)>>
LOCAL untimed == <<Song(8, halo, 0), Song(9, Title("", {}), 100)>>
LOCAL twice == <<Song(10, halo, 100), Song(10, halo, 120), Broken(Song(11, live, 100))>>

LOCAL Album(release, group, score) ==
  [release |-> release, releaseGroup |-> group, score |-> score]
LOCAL SomeAlbums == <<Album(1, 1, 8000), Album(2, 2, 9000), Album(3, 1, 9000), Album(4, 0, 9500),
                      Album(5, 1, 7000)>>

LOCAL Artist(provider, id, fields, wikidata) ==
  [provider |-> provider, id |-> id, named |-> TRUE, fields |-> fields, wikidata |-> wikidata]
LOCAL Nameless(artist) == [artist EXCEPT !.named = FALSE]
LOCAL byName == Artist("musicbrainz", 1, {}, FALSE)
LOCAL linked == Artist("musicbrainz", 1, {}, TRUE)
LOCAL other == Artist("musicbrainz", 2, {}, FALSE)
LOCAL unidentified == Artist("musicbrainz", 0, {}, FALSE)

LOCAL Text(whole) == [text |-> TRUE, whole |-> whole]
LOCAL noText == [text |-> FALSE, whole |-> TRUE]

LOCAL Listed == [c \in Calls |->
  CASE c = "byId" -> {<<Mb(1, halo, {1, 2}, 10000)>>}
    [] c = "byIsrc" -> {<<Mb(1, halo, {1, 2}, 10000)>>, <<Mb(2, halo, {2}, 10000), Broken(Mb(3, live, {2}, 10000))>>}
    [] c = "byPrint" -> {<<Printed(1, 1, 9000), Printed(1, 2, 9000), Printed(2, 1, 8000)>>}
    [] c = "byText" -> {<<Mb(1, halo, {1}, 9000), Mb(3, live, {}, 9500)>>,
                        <<Mb(1, live, {}, 9500), Mb(1, halo, {}, 9500)>>,
                        <<Mb(4, Title("other", {}), {}, 9000), Mb(4, Title("other", {}), {}, 9500)>>}
    [] c = "itunes" -> {near, far, untimed, twice}
    [] c = "release" -> {<<Album(1, 1, 0)>>, <<Album(1, 2, 0)>>, <<Album(2, 1, 0)>>}
    [] c = "releaseGroup" -> {<<Album(1, 1, 0)>>}
    [] c = "groupSearch" -> {SomeAlbums, <<>>}
    [] c \in {"artistById", "artistDetail"} -> {<<byName>>, <<linked>>, <<Nameless(linked)>>}
    [] c = "artistSearch" -> {<<>>, <<byName, other>>, <<byName, byName>>, <<unidentified, other>>,
                              <<unidentified>>}
    [] c = "neteaseArtist" -> {<<>>, <<Artist("netease", 3, {"avatar"}, FALSE), other>>}
    [] c = "qqArtist" -> {<<>>, <<Artist("qqmusic", 4, {}, FALSE)>>}
    [] c = "wikidata" -> {<<{}>>, <<{"avatar"}>>, <<{"avatar", "description"}>>}
    [] c = "profile" -> {<<>>, <<{}>>, <<{"avatar"}>>}
    [] c = "intro" -> {<<{}>>, <<{"description", "biography"}>>}
    [] c = "exact" -> {<<Text(TRUE)>>, <<Text(FALSE)>>, <<noText>>}
    [] c = "search" -> {<<>>, <<noText, Text(TRUE)>>}
    [] c \in {"neSong", "qqSong", "kuSong", "kuFind"} -> {<<1>>}
    [] c \in {"neLyric", "qqLyric", "kuLoad"} -> {<<1>>, <<3>>}]

\* The word chains end in few ways: none, thrown, or words of one of two lengths.
MCAnswers == [c \in Calls |->
  {Success(d) : d \in Listed[c]} \cup
  (IF c \in WordLookups THEN {Failure, Thrown} ELSE {NotFound, Failure, Malformed, Thrown})]

\* No lookup rejects.
MCSteady == [c \in Calls |-> MCAnswers[c] \ {Thrown}]

LOCAL R(endpoint, given) == [endpoint |-> endpoint, given |-> given]
MCRequests ==
  {R(e, g) : e \in {"recordings", "recordings2"},
             g \in {{"recordingMbid", "isrc", "fingerprint", "fingerprintDuration", "acoustidApiKey", "title"},
                    {"recordingMbid", "isrc"}, {"title"}, {"fingerprint", "acoustidApiKey"}, {},
                    {"fingerprint", "fingerprintDuration"}}}
  \cup {R("albums", g) : g \in {{"releaseMbid", "releaseGroupMbid"}, {"releaseGroupMbid", "title"}, {"title"}}}
  \cup {R("artists", g) : g \in {{"artistMbid", "name"}, {"name"}, {"artistMbid"}}}
  \cup {R("lyrics", g) : g \in {{"title"}, {"title", "neteaseSongId"}}}
=============================================================================
