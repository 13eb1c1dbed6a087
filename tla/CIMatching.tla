----------------------------- MODULE CIMatching -----------------------------
(***************************************************************************)
(* Which CI grant covers which job (internal/store/ci_grants.go), and      *)
(* which principals a CI certificate carries (internal/ca/keyid.go).  The  *)
(* project path is matched three times: by the LIKE of MatchCIGrants, by   *)
(* projectMatches, and on the host, where the grant's ci:<path> meets the  *)
(* principals of the certificate.  Ref and environment patterns are globs. *)
(*                                                                         *)
(* Strings are sequences of one-character strings.  A behaviour is one     *)
(* pair of strings: a grant's and a job's.                                 *)
(***************************************************************************)
EXTENDS Integers, Sequences, SequencesExt

CONSTANTS PathChars,     \* characters of paths; "/" and "_" matter
          PatternChars,  \* characters of patterns; "*" matters
          NameChars,     \* characters of refs and environments
          MaxLength      \* bound on the length of a string

ASSUME MatchingAssumption == MaxLength \in Nat

VARIABLE subject   \* what is matched: a path or a pattern, with a value

Strings(chars) == UNION {[1..n -> chars] : n \in 0..MaxLength}

MatchingInit ==
    \/ subject \in [kind : {"path"}, rule : Strings(PathChars) \ {<<>>},
                    value : Strings(PathChars) \ {<<>>}]
    \/ subject \in [kind : {"pattern"}, rule : Strings(PatternChars),
                    value : Strings(NameChars)]

-----------------------------------------------------------------------------
HasPrefix(s, p) == Len(p) <= Len(s) /\ SubSeq(s, 1, Len(p)) = p

HasSuffix(s, p) == Len(p) <= Len(s) /\ SubSeq(s, Len(s) - Len(p) + 1, Len(s)) = p

projectMatches(grantPath, projectPath) ==
    \/ grantPath = projectPath
    \/ HasPrefix(projectPath, Append(grantPath, "/"))

(* SQL LIKE, the pattern already a sequence: "_" is any character, "%" any *)
(* string.                                                                 *)
Like(value, pattern) ==
    LET m[i \in 1..(Len(pattern) + 1), j \in 1..(Len(value) + 1)] ==
          IF i > Len(pattern) THEN j > Len(value)
          ELSE IF pattern[i] = "%"
          THEN m[i + 1, j] \/ (j <= Len(value) /\ m[i, j + 1])
          ELSE /\ j <= Len(value)
               /\ pattern[i] \in {"_", value[j]}
               /\ m[i + 1, j + 1]
    IN m[1, 1]

(* The candidates of MatchCIGrants.                                        *)
Candidate(grantPath, projectPath) ==
    \/ grantPath = projectPath
    \/ Like(projectPath, grantPath \o <<"/", "%">>)

(* CIPrincipals, without the ci: in front: the project and the namespaces  *)
(* above it; a slash at the very start separates nothing.                  *)
CIPrincipals(projectPath) ==
    {projectPath} \cup
    {SubSeq(projectPath, 1, k - 1) : k \in {n \in 2..Len(projectPath) :
                                              projectPath[n] = "/"}}

-----------------------------------------------------------------------------
(* strings.Split(pattern, "*")                                             *)
Parts(pattern) ==
    LET stars == SetToSortSeq({0, Len(pattern) + 1} \cup
                     {n \in 1..Len(pattern) : pattern[n] = "*"}, <)
    IN [i \in 1..(Len(stars) - 1) |-> SubSeq(pattern, stars[i] + 1, stars[i + 1] - 1)]

(* strings.Index, and what follows the first occurrence.                   *)
Places(s, part) == {n \in 1..(Len(s) - Len(part) + 1) :
                      SubSeq(s, n, n + Len(part) - 1) = part}

NoMatch == [ok |-> FALSE, rest |-> <<>>]

SkipPart(found, part) ==
    LET at == Places(found.rest, part)
    IN IF ~found.ok \/ at = {} THEN NoMatch
       ELSE LET first == CHOOSE n \in at : \A m \in at : n <= m
            IN [ok |-> TRUE,
                rest |-> SubSeq(found.rest, first + Len(part), Len(found.rest))]

(* A mutant: the part after the last star is looked for in the whole value.*)
wildcardOverlaps(pattern, value) ==
    LET parts == Parts(pattern)
        after == FoldLeft(SkipPart,
                   [ok |-> TRUE, rest |-> SubSeq(value, Len(parts[1]) + 1, Len(value))],
                   SubSeq(parts, 2, Len(parts) - 1))
    IN IF Len(parts) = 1 THEN pattern = value
       ELSE HasPrefix(value, parts[1]) /\ after.ok /\ HasSuffix(value, Last(parts))

wildcardMatch(pattern, value) ==
    LET parts == Parts(pattern)
        after == FoldLeft(SkipPart,
                   [ok |-> TRUE, rest |-> SubSeq(value, Len(parts[1]) + 1, Len(value))],
                   SubSeq(parts, 2, Len(parts) - 1))
    IN IF Len(parts) = 1 THEN pattern = value
       ELSE HasPrefix(value, parts[1]) /\ after.ok /\ HasSuffix(after.rest, Last(parts))

-----------------------------------------------------------------------------
(* What a glob means: the pattern can be laid over the value character by  *)
(* character, each star over any run of them.                              *)
Glob(pattern, value) ==
    LET m[i \in 1..(Len(pattern) + 1), j \in 1..(Len(value) + 1)] ==
          IF i > Len(pattern) THEN j > Len(value)
          ELSE IF pattern[i] = "*"
          THEN m[i + 1, j] \/ (j <= Len(value) /\ m[i, j + 1])
          ELSE j <= Len(value) /\ pattern[i] = value[j] /\ m[i + 1, j + 1]
    IN m[1, 1]

(* The places where a project path is matched agree: the query finds every *)
(* grant that covers the project, although "_" is a wildcard in it, and    *)
(* the certificate carries the principal of exactly the grants that cover  *)
(* the project.                                                            *)
CIReach(grantPath, projectPath) ==
    LET covered == projectMatches(grantPath, projectPath)
    IN /\ covered => Candidate(grantPath, projectPath)
       /\ covered <=> grantPath \in CIPrincipals(projectPath)

(* Matching means the same everywhere.  A path reaches what CIReach says   *)
(* (TestCIPrincipals), and the leftmost search for the parts of a pattern  *)
(* decides the glob: no match is missed and none is found by letting two   *)
(* parts overlap.                                                          *)
MatchingAgrees ==
    /\ subject.kind = "path" => CIReach(subject.rule, subject.value)
    /\ subject.kind = "pattern" =>
         (wildcardMatch(subject.rule, subject.value) <=> Glob(subject.rule, subject.value))
=============================================================================
