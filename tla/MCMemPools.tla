----------------------------- MODULE MCMemPools -----------------------------
EXTENDS MemPools

MCRanges == {<<2, 5>>, <<5, 9>>}
MCConfigs ==
    {[kind |-> "page", len |-> 11, ext |-> <<2, 10>>],
     [kind |-> "size", len |-> 5, ext |-> <<0, 4>>],
     [kind |-> "range", len |-> 5, ext |-> <<0, 5>>],
     [kind |-> "arena", len |-> 7, ext |-> <<1, 6>>]}
=============================================================================
