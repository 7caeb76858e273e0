------------------------------- MODULE SBOMDiff -------------------------------
(***************************************************************************)
(* What the API computes about SBOM documents: the canonical form it       *)
(* hashes (canonicalize.js), the policy verdict (policy.js) and the        *)
(* difference report of a document that does not verify                    *)
(* (sbomDiffEngine.js).  Pure operators; Verification has the requests.    *)
(*                                                                         *)
(* A document is a record of the components it lists, the metadata fields  *)
(* the report compares, the embedded vulnerability ratings, and whatever   *)
(* else it says.  Names, versions and identifiers are texts as they are    *)
(* written, None if absent.  Ratings and the rest are what they say: the   *)
(* policy reads a rating without its blanks, as the canonical form does.   *)
(***************************************************************************)
EXTENDS Integers, Sequences, FiniteSets

CONSTANTS
  Banned,          \* banned_packages.json: name -> blocked versions and minimum safe version
  Trimmed,         \* text of a component -> the text without blanks around it
  Parts,           \* version -> its parts, as numbers
  Normal           \* metadata value -> how it is written canonically

None == ""
-----------------------------------------------------------------------------
\* canonicalizeSBOM and hashSBOM: two documents have the same hash exactly if they have the
\* same canonical form.  Keys are sorted, texts trimmed and timestamps rewritten; the order
\* of components stays.
Trim(c) == [c EXCEPT !.purl = Trimmed[@], !.ref = Trimmed[@], !.name = Trimmed[@], !.version = Trimmed[@]]

Canonical(d) ==
  [d EXCEPT !.components = [i \in DOMAIN @ |-> Trim(@[i])],
            !.metadata   = [f \in DOMAIN @ |-> Normal[@[f]]]]
-----------------------------------------------------------------------------
\* evaluateSBOM.

Part(v, i) == IF i \in DOMAIN v THEN v[i] ELSE 0

\* compareVersions(v, w) = -1
Below(v, w) ==
  \E i \in DOMAIN v \cup DOMAIN w :
    Part(v, i) < Part(w, i) /\ \A j \in 1..(i - 1) : Part(v, j) = Part(w, j)

\* Names and blocked versions are compared as they are written, with their blanks; only the
\* numbers of a version are read without.
IsBanned(c) ==
  /\ c.name \in DOMAIN Banned /\ c.version # None
  /\ c.version \in Banned[c.name].blocked \/ Below(Parts[c.version], Parts[Banned[c.name].minimum])

\* Embedded ratings, if there are any, are all that counts.
Fails(d) ==
  IF d.ratings # {} THEN \E r \in d.ratings : r.score >= 8 \/ r.severity = "critical"
  ELSE \E i \in DOMAIN d.components : IsBanned(d.components[i])

\* Faulty variant: the mode of the evaluation is taken for its status.
Verdict_Mode(d) == IF d.ratings # {} THEN "EMBEDDED_VULNERABILITY" ELSE IF Fails(d) THEN "FAIL" ELSE "PASS"

Verdict(d) == IF Fails(d) THEN "FAIL" ELSE "PASS"
-----------------------------------------------------------------------------
\* analyzeTampering.

\* getStableKey: package URLs and references share one name space; both are written
\* without their version here.
Key(c) == IF c.purl # None THEN <<"id", c.purl>> ELSE IF c.ref # None THEN <<"id", c.ref>> ELSE <<"name", c.name>>

\* What two components must have in common to be taken for the same one: key and version,
\* the key, or the name.
Class(by, c) == IF by = "version" THEN <<Key(c), c.version>> ELSE IF by = "key" THEN Key(c) ELSE c.name

\* The maps are gone through in the order in which their keys were met, first the original's.
Turn(all, c) == Cardinality({i \in DOMAIN all : \A j \in 1..i : Key(all[j]) # Key(c)})

\* The how many-th of its class a component is, of those at some places of a list.
Rank(all, l, places, by, i) ==
  Cardinality({j \in places :
    /\ Class(by, l[j]) = Class(by, l[i])
    /\ \/ Turn(all, l[j]) < Turn(all, l[i])
       \/ Turn(all, l[j]) = Turn(all, l[i]) /\ j <= i})

\* Faulty variant: what has been found is found again.
Mates_Reused(o, I, s, J, by) == {p \in I \X J : Class(by, o[p[1]]) = Class(by, s[p[2]])}

\* Each component in turn is matched with the first of its class that is still free: the
\* n-th there with the n-th here.
Mates(o, I, s, J, by) ==
  {p \in I \X J : /\ Class(by, o[p[1]]) = Class(by, s[p[2]])
                  /\ Rank(o \o s, o, I, by, p[1]) = Rank(o \o s, s, J, by, p[2])}

\* Places that no pair names.
Free(places, pairs, side) == places \ {p[side] : p \in pairs}

Modified(p, c, d) == [at |-> p, status |-> "Modified", name |-> c.name, from |-> c.version, to |-> d.version]
Removed(i, c)     == [at |-> <<i, 0>>, status |-> "Removed", name |-> c.name, from |-> c.version, to |-> None]
Added(j, d)       == [at |-> <<0, j>>, status |-> "Added", name |-> d.name, from |-> None, to |-> d.version]

\* Passes 1 and 2: components of one key and version are the same; what is left of a key is
\* paired in order, and the rest is removed or added.  Pass 3: a removal and an injection of
\* one name, each used once, are a modification.
Actions(o, s) ==
  LET same    == Mates(o, DOMAIN o, s, DOMAIN s, "version")
      I       == Free(DOMAIN o, same, 1)
      J       == Free(DOMAIN s, same, 2)
      updated == Mates(o, I, s, J, "key")
      removed == Free(I, updated, 1)
      added   == Free(J, updated, 2)
      moved   == Mates(o, removed, s, added, "name")
  IN {Modified(p, o[p[1]], s[p[2]]) : p \in updated \cup moved}
       \cup {Removed(i, o[i]) : i \in Free(removed, moved, 1)}
       \cup {Added(j, s[j]) : j \in Free(added, moved, 2)}

ComponentActions(o, s) == Actions(o.components, s.components)

\* Pass 4: values are compared as they are written.
MetadataChanges(o, s) == {f \in DOMAIN o.metadata : o.metadata[f] # s.metadata[f]}

\* The gravest kind of change names the whole report.
TamperType(o, s) ==
  LET seen == {a.status : a \in ComponentActions(o, s)}
  IN IF "Added" \in seen THEN "COMPONENT_INJECTION"
     ELSE IF "Removed" \in seen THEN "COMPONENT_REMOVAL"
     ELSE IF "Modified" \in seen THEN "VERSION_MODIFICATION"
     ELSE IF MetadataChanges(o, s) # {} THEN "FIELD_LEVEL_METADATA_MODIFICATION"
     ELSE "OTHER_MODIFICATION"
=============================================================================
