---------------------------- MODULE MCFilterSource ----------------------------
(* Lists of at most two entries in both formats, with and without tags. *)
EXTENDS FilterSource

CONSTANTS n1, n2, n3

MCNetworks == {n1, n2, n3}

apple == <<"fruit", "apple">>
green == <<"color", "green">>

Entry(n, p, t) == [network |-> n, policy |-> p, tags |-> t]

V1(f) == [format |-> "v1", entries |-> <<f>>]
V2(fs) == [format |-> "v2", entries |-> fs]

Doc(encoding, elements) ==
    [state |-> "document", encoding |-> encoding, json |-> TRUE, elements |-> elements]

Tagged == V2(<<Entry(n1, Block, {apple}), Entry(n2, Block, {apple, green})>>)

Plain1  == Doc("plain", <<V1(Entry(n1, Block, {}))>>)
Zipped  == Doc("gzip", <<V1(Entry(n2, Allow, {green})), V1(Entry(NoNetwork, Block, {}))>>)
Tagged2 == Doc("plain", <<Tagged, V1(Entry(n3, Block, {}))>>)
Mixed   == Doc("plain", <<V1(Entry(n3, "other", {apple})), Tagged>>)
Empty   == Doc("short", <<>>)
BadPolicy == Doc("plain", <<V2(<<Entry(n1, "other", {})>>)>>)
Garbage == [Plain1 EXCEPT !.json = FALSE]
Cut     == [Zipped EXCEPT !.encoding = "truncated"]

MCDocuments == {Plain1, Zipped, Tagged2, Mixed, Empty, BadPolicy, Garbage, Cut}

Configured(project, shoot, static, tagFilters) ==
    [project |-> project, shoot |-> shoot, static |-> static, tagFilters |-> tagFilters]

AllowGreen == [name |-> "color", values |-> {"green", "red"}, policy |-> Allow]
KeepApples == [name |-> "fruit", values |-> {"apple"}, policy |-> "none"]
BlockGreen == [name |-> "color", values |-> {"green"}, policy |-> Block]

MCConfigs ==
    { Configured(FALSE, FALSE, <<Entry(n3, Allow, {green})>>, <<BlockGreen>>),
      Configured(TRUE, FALSE, <<Entry(n3, Block, {green})>>, <<>>),
      Configured(FALSE, TRUE, <<>>, <<KeepApples>>),
      Configured(TRUE, TRUE, <<>>, <<>>) }

MCServiceTagFilters == <<AllowGreen>>

MCRefreshPeriods == {"none", "short", "ok"}
OkOnly == {"ok"}
=============================================================================
