---------------------------- MODULE MCVerification ----------------------------
(* Instances of SBOMDiff and Verification for TLC: every list of at most two     *)
(* components out of six, some of three, other metadata and embedded ratings.   *)
EXTENDS Verification, TLC
LOCAL INSTANCE SequencesExt

MCBanned == "log" :> [blocked |-> {"3"}, minimum |-> "2.1"]

\* Some versions and names have a blank at the end; numbers are read without it.
MCParts == "1" :> <<1>> @@ "2" :> <<2>> @@ "2.1" :> <<2, 1>> @@ "3" :> <<3>> @@ "3 " :> <<3>>

MCTrimmed ==
  "3 " :> "3" @@ "log " :> "log"
    @@ [t \in {None, "pkg:log", "pkg:web", "r1", "r2", "log", "web"} \cup DOMAIN MCParts |-> t]

\* Two ways of writing one timestamp, and a later one.
MCNormal == "noon" :> "12:00Z" @@ "12:00Z" :> "12:00Z" @@ "later" :> "13:00Z"

Library(purl, ref, name, version) == [purl |-> purl, ref |-> ref, name |-> name, version |-> version]

\* A library under its package URL, its reference and its name only, and another one.
Url1   == Library("pkg:log", "r1", "log", "2.1")
Url2   == Library("pkg:log", "r2", "log", "2")
Ref1   == Library(None, "pkg:log", "log", "2.1")
Named1 == Library(None, None, "log", "2.1")
Named3 == Library(None, None, "log", "3")
Other  == Library("pkg:web", None, "web", "1")

\* Two that are written with a blank: they are not banned, and hash as one that is.
Padded  == Library(None, None, "log", "3 ")
Renamed == Library(None, None, "log ", "3")

Text(components) ==
  [components |-> components, metadata |-> [timestamp |-> "noon"], ratings |-> {}, rest |-> "none"]

Lists == {s \in BoundedSeq({Url1, Url2, Ref1, Named1, Named3, Other}, 2) : s # <<>>}
           \cup {<<Url1, Url2, Other>>, <<Named1, Named3, Url2>>, <<Url2, Url2, Url1>>, <<Ref1, Named3, Named1>>}

Rated == [Text(<<Url1>>) EXCEPT !.ratings = {[score |-> 9, severity |-> "high"]}]

MCPresented ==
  {Text(l) : l \in Lists}
    \cup {[Text(<<Url1>>) EXCEPT !.metadata.timestamp = t] : t \in {"12:00Z", "later"}}
    \cup {Rated, Text(<<Padded>>), Text(<<Renamed>>), Text(<<Named1, Padded>>)}

MCSubmitted == {Text(<<Url1>>), Text(<<Named1, Named3, Url2>>), Text(<<Padded>>), Rated}

MCSymmetry == Permutations(Submitter)
=============================================================================
