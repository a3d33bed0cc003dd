----------------------------- MODULE RuleTrie -----------------------------
(***************************************************************************)
(* The rule lists of the DNS server (src/dns/rule): what Trie::insert      *)
(* stores for a line of a list, and what Trie::contain answers for a name. *)
(*                                                                         *)
(* A dotted string is the sequence of its parts, so that ".foo.com" is     *)
(* <<"", "foo", "com">> and the name abc.foo.com. is <<"abc","foo","com">>.*)
(* A trie is the set of strings the filter answers for: those inserted,    *)
(* and for the Bloom filter some false positives.                          *)
(***************************************************************************)
EXTENDS Naturals, Sequences, SequencesExt

\* Trie::insert: the parts in reverse, so that a wildcard ends in a dot.
Inserted(host) == Reverse(host)

\* Name::num_labels does not count a leading "*".
NumLabels(name) ==
  IF name # <<>> /\ Head(name) = "*" THEN Len(name) - 1 ELSE Len(name)

\* Mutant of Contain: an exact rule matches the names below it too.
ContainAnyLevel(trie, name) ==
  \E i \in 1..NumLabels(name) :
    LET buf == SubSeq(Reverse(name), 1, i) IN buf \in trie \/ Append(buf, "") \in trie

\* Trie::contain: the string grows by a label in each turn.  A rule for the
\* string itself counts only at the last label, and in any other turn hides
\* the wildcard rule for the same string.  The name "*" has no labels: its one
\* turn is never the last (`length - 1` wraps in the release build).
Contain(trie, name) ==
  LET segments == Reverse(name)
      turn[i \in 1..(Len(name) + 1)] ==
        IF i > Len(name) THEN FALSE
        ELSE LET buf == SubSeq(segments, 1, i)
             IN IF buf \in trie
                THEN i = NumLabels(name) \/ turn[i + 1]
                ELSE \/ Append(buf, "") \in trie
                     \/ i # NumLabels(name) /\ turn[i + 1]
  IN turn[1]

-----------------------------------------------------------------------------
\* A name and its parent domains.
Domains(name) == {SubSeq(name, k, Len(name)) : k \in 1..Len(name)}

\* The domain a name is looked up as: a leading "*" stands for its parent.
Plain(name) == IF Len(name) > 1 /\ Head(name) = "*" THEN Tail(name) ELSE name

\* What contain computes, without its loop: the name has labels and a rule of
\* its own, or one of its domains has a wildcard rule and no other.
Matched(trie, name) ==
  \/ NumLabels(name) > 0 /\ Inserted(Plain(name)) \in trie
  \/ \E d \in Domains(Plain(name)) :
       Inserted(<<"">> \o d) \in trie /\ Inserted(d) \notin trie
=============================================================================
