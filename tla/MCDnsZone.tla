----------------------------- MODULE MCDnsZone -----------------------------
(* DnsZone for TLC: one name with records of several types, spelt in two    *)
(* ways; configurations that move it from A to CNAME, that only remove, and *)
(* ones that are refused.                                                   *)
EXTENDS DnsZone

Www    == [id |-> "www", spelt |-> "plain"]
Apex   == [id |-> "@", spelt |-> "plain"]
WwwDot == [id |-> "www", spelt |-> "dotted"]
WwwUp  == [id |-> "www", spelt |-> "upper"]
Ip1    == [id |-> "ip1", spelt |-> "plain", kind |-> "ip4"]
Host1  == [id |-> "h1", spelt |-> "plain", kind |-> "host"]
Host2  == [id |-> "h2", spelt |-> "dotted", kind |-> "host"]
Text   == [id |-> "t", spelt |-> "plain", kind |-> "text"]
NoData == [id |-> "", spelt |-> "plain", kind |-> "text"]

NoFields == [f \in {} |-> 0]
Entry(type, name, data, ttl) ==
    [type |-> type, name |-> name, data |-> data, ttl |-> ttl, fields |-> NoFields]
Mx(priority) == [Entry("MX", Www, Host1, 0) EXCEPT !.fields = [f \in {"priority"} |-> priority]]
Absent(type, data) == [type |-> type, name |-> Www, data |-> data]
Config(records, absent) == [domain |-> "none", records |-> records, absent |-> absent]

ToCNAME  == Config(<<Entry("CNAME", WwwDot, Host1, 0)>>, {Absent("A", NoData), Absent("TXT", Text)})
ToA      == Config(<<Entry("A", Www, Ip1, 60), Entry("A", WwwUp, Ip1, 60), Mx(65535)>>,
                   {Absent("CNAME", Host1)})
CleanUp  == Config(<<>>, {Absent("TXT", NoData)})
TwoNames == Config(<<Entry("CNAME", Www, Host1, 0), Entry("CNAME", WwwDot, Host2, 0)>>, {})
Moved    == [CleanUp EXCEPT !.domain = "other"]
BadMx    == Config(<<Mx(65536)>>, {})

MCConfigs == {ToCNAME, ToA, CleanUp, TwoNames, Moved, BadMx}

Live(type, name, data, ttl) ==
    [type |-> type, name |-> name, data |-> data, ttl |-> ttl, fields |-> [f \in Fields |-> 0]]
MCForeign == {Live("TXT", Www, Text, 300)}
MCStart   == {<<>>,
              <<Live("A", Www, Ip1, 300), Live("A", WwwDot, Ip1, 60), Live("TXT", Www, Text, 300)>>,
              <<Live("SOA", Apex, Text, 300), Live("CNAME", Www, Host2, 300)>>}

=============================================================================
