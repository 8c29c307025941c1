------------------------------ MODULE MCRunner ------------------------------
(* Jobs of a workload with two stages per source and two of the job, one    *)
(* of which may fail, over one source or two.                               *)
EXTENDS Runner

MCRegistry ==
    [normalize |-> [scope |-> "chunk", optional |-> FALSE,
                    requires |-> {}, produces |-> {"wav"}],
     align |-> [scope |-> "chunk", optional |-> FALSE,
                requires |-> {"wav"}, produces |-> {"tiers"}],
     plot |-> [scope |-> "job", optional |-> TRUE,
               requires |-> {}, produces |-> {"page"}],
     fit |-> [scope |-> "job", optional |-> FALSE,
              requires |-> {"tiers"}, produces |-> {"profile"}]]

MCSize == [kmr |-> 2, ckb |-> 2]

Pipelines ==
    {<<"normalize", "plot">>, <<"align", "fit">>, <<"fit", "align">>,
     <<"align", "align">>, <<"fit">>, <<"align", "typo">>, <<>>}

(* Every pipeline, with files as they should be ... *)
Plain ==
    [stages : Pipelines, given : {{}, {"wav"}}, start : {"off"},
     sources : {<<"kmr">>, <<"kmr", "ckb">>}, chunkBy : BOOLEAN,
     kind : {"object"}, allowEmpty : {FALSE},
     names : {"fine"}, corpus : {"told"}, outRoot : {TRUE}]

(* ... the longest over its chunks ...                                      *)
Long ==
    [stages : {<<"normalize", "align", "plot", "fit">>}, given : {{}}, start : {"off"},
     sources : {<<"kmr", "ckb">>}, chunkBy : {TRUE},
     kind : {"object"}, allowEmpty : {FALSE},
     names : {"fine"}, corpus : {"told"}, outRoot : {TRUE}]

(* ... two of them restarted, over sources on a volume ...                  *)
Resumed ==
    [stages : {<<"normalize", "align", "fit">>, <<"align", "fit">>}, given : {{"wav"}},
     start : {"align"}, sources : {<<"kmr", "ckb">>}, chunkBy : BOOLEAN,
     kind : {"object", "volume"}, allowEmpty : {FALSE},
     names : {"fine"}, corpus : {"told"}, outRoot : {TRUE}]

(* ... and one of every kind of stage, with files as they may be.           *)
Odd ==
    [stages : {<<"normalize", "fit">>}, given : {{"tiers"}}, start : {"off"},
     sources : {<<"kmr", "ckb">>}, chunkBy : BOOLEAN,
     kind : {"object", "s3"}, allowEmpty : BOOLEAN,
     names : {"fine", "some", "all"},
     corpus : {"told", "named", "elsewhere", "unset"}, outRoot : BOOLEAN]

MCSpecs == Plain \cup Long \cup Resumed \cup Odd
=============================================================================
