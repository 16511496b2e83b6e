-------------------------------- MODULE MC_Cli --------------------------------
(* Command lines for main: every generation command with and without      *)
(* arguments, options before and after a command word, a daemon command   *)
(* with too few and enough words, the default command and an unknown one. *)
EXTENDS Cli

MCCommandLines ==
  { <<>>, <<"-h">>, <<ApplyYaml, "-v">>, <<Yaml, "-x", "a.yaml">>,
    <<"status">>, <<"set-mtu", "eth0">>, <<"set-mtu", "eth0", "1500">>, <<"bogus">>,
    <<ApplyYaml>>, <<ApplyYaml, "b.yaml">>, <<Yaml>>, <<Yaml, "a.yaml", "b.yaml">>,
    <<Yaml, "b.yaml", "c.yaml", "a.yaml">>,
    <<FromCmdline>>, <<FromCmdline, "ip=dhcp", "rd.neednet=1">> }

MCFiles == {"a.yaml", "b.yaml", "c.yaml"}

(* The YAML directory is absent, empty, or holds two or three files. *)
MCDirContents == {NULL, {}, {"a.yaml", "b.yaml"}, MCFiles}
====
