------------------------------ MODULE Identity ------------------------------
(***************************************************************************)
(* How results of several providers become the recordings and albums of an *)
(* answer: src/src/identity/recording.ts and album.ts, and the older       *)
(* dedupeRecordings of src/src/core.ts.                                     *)
(*                                                                         *)
(* A title is a text and its version markers ("live", "remix", ...); the   *)
(* edit distance of two texts is the constant Similarity.  Confidences and *)
(* scores are in ten-thousandths, which is what `round' keeps; durations   *)
(* are in half seconds, so Apart is the three seconds that may lie between *)
(* two results of one recording.                                           *)
(***************************************************************************)
EXTENDS Integers, SequencesExt, FiniteSetsExt

CONSTANTS
  Similarity,  \* Similarity[s, t]: how alike two texts are, one of Scores
  NoId         \* an identifier that a result does not have

\* What a result may hold.
Ids == Nat \ {NoId}
Versions == {"radio_edit", "live", "remix", "acoustic", "instrumental", "karaoke", "remaster"}
Texts == {p[1] : p \in DOMAIN Similarity}
Scores == {n \in Nat : n <= 10000}

ASSUME SimilarityAssumption ==
  /\ Similarity \in [Texts \X Texts -> Scores]
  /\ \A p \in Texts \X Texts : Similarity[p] = Similarity[<<p[2], p[1]>>]

ASSUME NoIdAssumption == NoId \in Nat

Titles == [text : Texts, versions : SUBSET Versions]

-----------------------------------------------------------------------------
(* Sequences made of the entries of another.  A relation is a set of pairs. *)

\* The entries of s at the positions I, in the order that R puts these in.
Arranged(s, I, R) ==
  [k \in 1..Cardinality(I) |->
     s[CHOOSE i \in I : Cardinality({j \in I : <<j, i>> \in R}) = k - 1]]

\* Array.prototype.filter: the positions keep their order.
Kept(I) == {p \in I \X I : p[1] < p[2]}
Picked(s, I) == Arranged(s, I, Kept(I))

\* Array.prototype.sort: entries that are equal keep their order.
Pairs(s) == (DOMAIN s) \X (DOMAIN s)
Stable(s, less) ==
  {p \in Pairs(s) : p \in less \/ (<<p[2], p[1]>> \notin less /\ p[1] < p[2])}
Sorted(s, less) == Arranged(s, DOMAIN s, Stable(s, less))

Cut(s, limit) == SubSeq(s, 1, Min({limit, Len(s)}))

-----------------------------------------------------------------------------
(* Do two results name the same recording? *)

Apart == 6
\* Mutant: a threshold that two seconds between two results still pass.
MergesLoosely == 8600

Merges == 9000  \* the confidence from which a result joins a group

Blocked == [confidence |-> 0, matchedBy |-> {}, blocked |-> TRUE]
Certain(confidence, by) ==
  [confidence |-> confidence, matchedBy |-> {by}, blocked |-> FALSE]

MatchTexts(l, r) ==
  LET title == Similarity[<<l.title.text, r.title.text>>]
      artist == Similarity[<<l.artist, r.artist>>]
      apart == IF l.duration > r.duration THEN l.duration - r.duration
                                          ELSE r.duration - l.duration
      timed == l.duration > 0 /\ r.duration > 0
      named == 4 * title + 4 * artist
  IN  IF l.title.versions # r.title.versions THEN Blocked
      ELSE IF title < 9200 \/ artist < 9200
        THEN [confidence |-> named \div 10, matchedBy |-> {}, blocked |-> FALSE]
      ELSE IF ~timed
        THEN [confidence |-> Min({8900, named \div 10}),
              matchedBy |-> {"title", "artist"}, blocked |-> FALSE]
      ELSE IF apart > Apart THEN Blocked
      ELSE [confidence |-> (named + 2 * ((10000 * (Apart - apart)) \div Apart)) \div 10,
            matchedBy |-> {"title", "artist", "duration"}, blocked |-> FALSE]

MatchRecordings(l, r) ==
  IF l.mbid # NoId /\ r.mbid # NoId
    THEN IF l.mbid = r.mbid THEN Certain(10000, "recording_mbid") ELSE Blocked
  ELSE IF l.isrcs # {} /\ r.isrcs # {}
    THEN IF l.isrcs \cap r.isrcs # {} THEN Certain(9900, "isrc") ELSE Blocked
  ELSE IF l.verified /\ r.verified /\ l.acoustId # NoId /\ r.acoustId # NoId
    THEN IF l.acoustId = r.acoustId THEN Certain(9800, "acoustid") ELSE Blocked
  ELSE MatchTexts(l, r)

-----------------------------------------------------------------------------
(* Grouping results into canonical recordings. *)

SourceKey(v) == <<v.provider, v.id>>

Priority(provider) ==
  CASE provider = "musicbrainz" -> 0 [] provider = "acoustid" -> 1 [] OTHER -> 2

\* Mutant: results of one provider stay in the order it lists them.
CompareByPriority(l, r) == Priority(l.provider) < Priority(r.provider)

\* Names are compared by the numbers MC modules give them for ids.
CompareEvidence(l, r) ==
  \/ Priority(l.provider) < Priority(r.provider)
  \/ /\ Priority(l.provider) = Priority(r.provider)
     /\ l.score > r.score \/ (l.score = r.score /\ l.id < r.id)

\* The group whose first result matches v best, the earliest of equals, or 0.
GroupOf(groups, v) ==
  LET match == [g \in DOMAIN groups |-> MatchRecordings(groups[g].evidence[1], v)]
      near == {g \in DOMAIN groups : ~match[g].blocked /\ match[g].confidence >= Merges}
      best == {g \in near : \A h \in near : match[g].confidence >= match[h].confidence}
  IN  IF near = {} THEN 0 ELSE Min(best)

Place(groups, v) ==
  LET g == GroupOf(groups, v)
      sources == [k \in {SourceKey(v)} |->
                    IF g = 0 THEN Certain(v.score, "provider_result")
                             ELSE MatchRecordings(groups[g].evidence[1], v)]
      \* matchBySource.set: a later match of the same source replaces the earlier one.
      Noted(old) == [k \in DOMAIN old \cup DOMAIN sources |->
                       IF k \in DOMAIN sources THEN sources[k] ELSE old[k]]
  IN  IF g = 0
        THEN Append(groups, [evidence |-> <<v>>, matchBySource |-> sources])
        ELSE [groups EXCEPT ![g] =
                [evidence |-> Append(@.evidence, v), matchBySource |-> Noted(@.matchBySource)]]

ByEvidence(values) == {p \in Pairs(values) : CompareEvidence(values[p[1]], values[p[2]])}

\* The groups after each number of results.
Grown(ordered) ==
  LET grown[n \in 0..Len(ordered)] ==
        IF n = 0 THEN <<>> ELSE Place(grown[n - 1], ordered[n])
  IN  grown

Groups(values) == Grown(Sorted(values, ByEvidence(values)))[Len(values)]

FirstIn(s, field) ==
  LET having == {i \in DOMAIN s : s[i][field] # NoId}
  IN  IF having = {} THEN NoId ELSE s[Min(having)][field]

\* Mutant: the code that several recordings share comes first.
CanonicalIdByIsrc(primary, mbid, isrcs, acoustId) ==
  IF isrcs # {} THEN <<"isrc", isrcs>>
  ELSE IF mbid # NoId THEN <<"mbid", mbid>>
  ELSE SourceKey(primary)

CanonicalId(primary, mbid, isrcs, acoustId) ==
  IF mbid # NoId THEN <<"mbid", mbid>>
  ELSE IF isrcs # {} THEN <<"isrc", isrcs>>
  ELSE IF primary.verified /\ acoustId # NoId THEN <<"acoustid", acoustId>>
  ELSE SourceKey(primary)

\* Place has kept the order of the results, so the first is the primary one.
CanonicalizeGroup(group) ==
  LET values == group.evidence
      isrcs == UNION {values[i].isrcs : i \in DOMAIN values}
  IN  [canonicalId |-> CanonicalId(values[1], FirstIn(values, "mbid"), isrcs,
                                   FirstIn(values, "acoustId")),
       evidence |-> values,
       confidence |-> Max({group.matchBySource[k].confidence : k \in DOMAIN group.matchBySource}),
       possibleDuplicates |-> {}]

\* The other groups whose first result is like group g's, but not enough to merge.
PossibleDuplicates(groups, g) ==
  {CanonicalizeGroup(groups[h]).canonicalId : h \in
     {h \in DOMAIN groups \ {g} :
        LET m == MatchRecordings(groups[Min({g, h})].evidence[1],
                                 groups[Max({g, h})].evidence[1])
        IN  ~m.blocked /\ m.confidence >= 7000 /\ m.confidence < Merges}}

\* One recording for each group.
CanonicalRecordings(groups) ==
  [g \in DOMAIN groups |->
     [CanonicalizeGroup(groups[g]) EXCEPT !.possibleDuplicates = PossibleDuplicates(groups, g)]]

\* The most confident first.
ByCertainty(records) ==
  Sorted(records, {p \in Pairs(records) :
                     records[p[1]].confidence > records[p[2]].confidence})

ResolveCanonicalRecordings(values) == ByCertainty(CanonicalRecordings(Groups(values)))

\* What the first version of the interface answers: one result for each key.
DedupeKey(v) == IF v.mbid # NoId THEN <<"mbid", v.mbid>> ELSE SourceKey(v)

\* The first of each key in values.
FirstOfKey(values) ==
  {i \in DOMAIN values : \A j \in 1 .. i - 1 : DedupeKey(values[j]) # DedupeKey(values[i])}

\* Mutant: the first result of each key is kept, not the best.
DedupeUnsorted(values) == Picked(values, FirstOfKey(values))

DedupeRecordings(values) ==
  LET sorted == Sorted(values, {p \in Pairs(values) : values[p[1]].score > values[p[2]].score})
  IN  Picked(sorted, FirstOfKey(sorted))

-----------------------------------------------------------------------------
(* Albums: the best result of each release group, in a fixed order. *)

\* Mutant: the last result of a group replaces those before it.
LastOfGroup(albums) ==
  {i \in DOMAIN albums : \A j \in DOMAIN albums :
     albums[j].releaseGroup = albums[i].releaseGroup => j <= i}

\* The most confident of each release group, the earliest of equals.
BestOfGroup(albums) ==
  {i \in DOMAIN albums : \A j \in DOMAIN albums :
     albums[j].releaseGroup = albums[i].releaseGroup =>
       \/ albums[i].confidence > albums[j].confidence
       \/ albums[i].confidence = albums[j].confidence /\ i <= j}

AlbumFromReleaseGroup(value, exact) ==
  [releaseGroup |-> value.releaseGroup,
   confidence |-> IF exact THEN 10000 ELSE value.score]

ByConfidence(albums) ==
  {p \in Pairs(albums) :
     LET a == albums[p[1]]  b == albums[p[2]]
     IN  \/ a.confidence > b.confidence
         \/ a.confidence = b.confidence /\ a.releaseGroup < b.releaseGroup}

\* A release group that has no identifier is no album.
Named(values) == Picked(values, {i \in DOMAIN values : values[i].releaseGroup # NoId})

CanonicalizeReleaseGroups(values, exact, limit) ==
  LET named == Named(values)
      albums == [i \in DOMAIN named |-> AlbumFromReleaseGroup(named[i], exact)]
      best == Picked(albums, BestOfGroup(albums))
  IN  Cut(Sorted(best, ByConfidence(best)), limit)

\* A release that belongs to another group than the one asked for is no answer.
CanonicalizeRelease(value, expectedReleaseGroup) ==
  IF value.releaseGroup # NoId /\ expectedReleaseGroup \in {NoId, value.releaseGroup}
    THEN <<AlbumFromReleaseGroup(value, TRUE)>> ELSE <<>>
=============================================================================
