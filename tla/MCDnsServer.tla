---------------------------- MODULE MCDnsServer ----------------------------
(* Instances of DnsServer for TLC.                                         *)
EXTENDS DnsServer

BarCom == <<"bar", "com">>
XBarCom == <<"x", "bar", "com">>

MCNames == {BarCom, XBarCom}

\* Names below and beside those, and some with a leading "*".
MCLookups ==
  MCNames \cup {<<"*">>, <<"*", "bar", "com">>, <<"y", "x", "bar", "com">>,
                <<"y", "bar", "com">>, <<"foo", "com">>}

\* An exact rule that hides a wildcard rule, and the rule "*"; no rules.
MCBodies == { << BarCom, <<"", "bar", "com">>, <<"*">> >>, << >> }

\* A string the Bloom filter may answer for: as if ".com" were a rule.
MCFalsePositives == {Inserted(<<"", "com">>)}
=============================================================================
