------------------------------ MODULE MCStore ------------------------------
(* Two processes, and what they may be told to do. *)
EXTENDS StoreProperties

Name(parts) == [parts |-> parts, digest |-> ""]
alpine == Name(<<<<"alpine">>>>)
alpine3 == Name(<<<<"alpine", "3">>>>)
foo == Name(<<<<"docker.io">>, <<"foo">>>>)
mixed == Name(<<<<"mixed">>>>)
mine == Name(<<<<"localhost", "5000">>, <<"team">>, <<"app", "v1">>>>)
pinned == [alpine EXCEPT !.digest = "d1"]

Entry(path, kind, data) == [path |-> path, kind |-> kind, data |-> data]
conf == <<"etc", "conf">>
vmlinuz == <<"boot", "vmlinuz">>
p9 == <<"modules", "9p.ko">>
net9 == <<"modules", "9pnet.ko">>

MCHosts == {"localhost", "docker.io"}
MCTar == 1 :> <<Entry(conf, "file", "one"), Entry(<<"bin", "sh">>, "link", "busybox")>>
         @@ 2 :> <<Entry(conf, "file", "two"), Entry(<<"bin", "ls">>, "file", "ls")>>
         @@ 3 :> <<Entry(conf, "file", "three")>>
         @@ 4 :> <<Entry(vmlinuz, "file", "oci"), Entry(p9, "file", "oci")>>
MCLayersOf == [alpine |-> <<1, 2>>, foo |-> <<2>>, mixed |-> <<3, 2>>, kimg |-> <<4>>,
               arm |-> <<3>>]
Plain == [cmd |-> <<"sh">>, entrypoint |-> <<>>, env |-> <<>>, workdir |-> <<>>, ports |-> {},
          volumes |-> {}, user |-> <<>>, labels |-> <<>>, shell |-> <<>>]
MCSettingsOf == [i \in {"", "alpine", "foo", "mixed", "kimg", "arm"} |->
                   IF i = "alpine" THEN [Plain EXCEPT !.ports = {<<"22", "tcp">>}] ELSE Plain]

On(arch, variant, image) ==
  [stated |-> TRUE, platform |-> [os |-> "linux", arch |-> arch, variant |-> variant],
   image |-> image]
Only(image) == [list |-> FALSE, entries |-> <<On("amd64", "", image)>>]
Many == [list |-> TRUE,
         entries |-> <<[On("", "", "foo") EXCEPT !.stated = FALSE], On("arm64", "v8", "arm"),
                       On("amd64", "", "alpine")>>]
Tagged(tag, repository) == <<<<"docker.io">>, repository, tag>>
MCRemote == Tagged("latest", <<<<"library">>, <<"alpine">>>>) :> Many
            @@ Tagged("3", <<<<"library">>, <<"alpine">>>>) :> Many
            @@ Tagged("latest", <<<<"library">>, <<"mixed">>>>) :> Only("mixed")
            @@ Tagged("latest", <<<<"foo">>>>) :> Only("foo")
            @@ Tagged("latest", <<<<"kimg">>>>) :> Only("kimg")

MCPublished == <<"debian", <<"6.1">>, "amd64">> :> <<"6.1.9">>
               @@ <<"alpine", <<"3.20", "lts">>, "amd64">> :> <<"6.6.1">>
MCPackages == <<"debian", "6.1", <<"6.1.9">>, "amd64">> :> {vmlinuz, p9, net9, <<"readme">>}
              @@ <<"alpine", "3.20", <<"lts", "6.6.1">>, "amd64">> :>
                   {<<"boot", "vmlinuz-lts">>, <<"modules", "9p.ko.gz">>}
              @@ <<"ubuntu", "6.8", <<"31">>, "amd64">> :> {<<"readme">>}
MCPathOf == "kimg" :> <<"kimg">> @@ "//host/linux.tar.xz" :> <<"", "", "host", "linux.tar.xz">>
MCBinaries == {vmlinuz, <<"boot", "vmlinuz-lts">>}
MCNineP == {p9, net9}

MCContext == <<"app">> :> "app" @@ <<"src", "a">> :> "a" @@ <<"src", "b.o">> :> "b"
             @@ <<"src", "keep.o">> :> "keep"
MCNameEnds == {<<"myapp", "app">>}
MCImageOf == <<"alpine">> :> alpine @@ <<"mixed">> :> mixed @@ <<"mine">> :> mine

-----------------------------------------------------------------------------
Line(words) == [cont |-> FALSE, words |-> words]
Open(words) == [cont |-> TRUE, words |-> words]

(* A Dockerfile with all that a build does. *)
Whole ==
  <<Line(<<<<"#">>, <<"comment">>>>),
    Line(<<<<"FROM">>, <<"--platform", "linux", "amd64">>, <<"alpine">>, <<"AS">>, <<"base">>>>),
    Line(<<>>),
    Line(<<<<"KERNEL">>, <<"debian", "6.1", "6.1.9">>>>),
    Line(<<<<"ENV">>, <<"A">>, <<"B", "C">>>>), Line(<<<<"EXPOSE">>, <<"80">>>>),
    Open(<<<<"COPY">>, <<"src">>>>), Line(<<conf, <<"opt">>>>),
    Line(<<<<"RUN">>, <<"made">>>>)>>
Copies ==
  <<Line(<<<<"FROM">>, <<"alpine">>>>), Line(<<<<"COPY">>, <<"src">>, <<"opt">>>>),
    Line(<<<<"COPY">>, <<"--from", "base">>, <<"app">>, <<"bin", "myapp">>>>),
    Line(<<<<"ADD">>, <<"http:", "host">>, <<"app">>, <<"opt">>>>),
    Line(<<<<"EXPOSE">>, <<"53", "udp">>>>), Line(<<<<"CMD">>, <<"[", "sh", "-c">>>>),
    Open(<<<<"ENTRYPOINT">>, <<"init">>>>)>>
Runs ==
  <<Line(<<<<"FROM">>, <<"mixed">>>>), Line(<<<<"KERNEL">>, <<"debian", "6.1">>>>),
    Line(<<<<"RUN">>, <<"made">>>>)>>
Short == <<Line(<<<<"FROM">>, <<"mixed">>>>), Line(<<<<"COPY">>, <<"app">>, <<"opt">>>>)>>
Twice == <<Line(<<<<"FROM">>, <<"alpine">>>>), Line(<<<<"FROM">>, <<"mixed">>>>)>>
Words(kind) == <<Line(<<<<kind>>>>)>>
Rest ==
  <<Line(<<<<"FROM">>, <<"mixed">>>>), Line(<<<<"WORKDIR">>, <<"opt">>>>),
    Line(<<<<"VOLUME">>, <<"[", "data">>>>), Line(<<<<"USER">>, <<"me">>>>),
    Line(<<<<"LABEL">>, <<"k", "v">>>>), Line(<<<<"SHELL">>, <<"[", "sh">>>>),
    Line(<<<<"ENV">>, <<"A">>, <<"B">>>>), Line(<<<<"RUN">>, <<"made">>>>),
    Line(<<<<"HEALTHCHECK">>, <<"--interval", "5s">>, <<"CMD">>, <<"true">>>>)>>

Nothing == [kind |-> "pull", raw |-> alpine, platform |-> <<>>, kernel |-> <<>>,
            lines |-> <<>>, ignore |-> <<>>, second |-> 1, qemu |-> TRUE]
Do(kind, raw) == [Nothing EXCEPT !.kind = kind, !.raw = raw]
Kernel(kind, ref) == [Nothing EXCEPT !.kind = kind, !.kernel = ref]
Objects == <<[path |-> <<>>, names |-> {"b.o", "keep.o"}, negate |-> FALSE],
             [path |-> <<"src", "keep.o">>, names |-> {}, negate |-> TRUE]>>
Build(lines, second) ==
  [Nothing EXCEPT !.kind = "build", !.raw = mine, !.lines = lines, !.second = second,
                  !.ignore = Objects]
NoQEMU(cmd) == [cmd EXCEPT !.qemu = FALSE]
For(cmd, platform) == [cmd EXCEPT !.platform = platform]

Pair(p, q) == [x \in {"p", "q"} |-> IF x = "p" THEN p ELSE q]
debian == <<"debian", "6.1">>
debianFull == <<"debian", "6.1", "6.1.9">>
debianKey == <<"debian", "6.1", "6.1.9", "amd64">>

Images == {
  Pair(<<Do("pull", alpine), Do("pull", alpine)>>, <<Do("pull", alpine3)>>),
  Pair(<<Do("pull", foo), Do("pull", foo)>>, <<Do("rmi", foo), Do("run", foo)>>),
  Pair(<<Do("run", alpine), Do("rmi", alpine)>>, <<Do("pull", pinned)>>),
  Pair(<<Do("pull", mixed), Do("save", mixed), Do("load", mixed)>>, <<Do("run", mixed)>>),
  Pair(<<For(Do("pull", alpine3), <<"linux", "arm64", "v7">>), Do("save", alpine3)>>,
       <<For(Do("pull", alpine), <<"linux", "s390x">>), Do("load", foo)>>) }
Kernels == {
  Pair(<<Kernel("kpull", debianFull), Kernel("krm", debianKey)>>,
       <<Kernel("kpull", <<"alpine", "3.20">>)>>),
  Pair(<<Kernel("kpull", debian), Kernel("krm", debianKey)>>, <<Kernel("kpull", debianFull)>>),
  Pair(<<Kernel("kpull", <<"oci", "kimg">>)>>, <<Kernel("kpull", <<"alpine", "3.20">>)>>),
  Pair(<<Kernel("kpull", <<"ubuntu", "6.8", "31">>), Kernel("kpull", <<"archlinux", "6.9">>)>>,
       <<Kernel("kpull", <<"https", "//host/linux.tar.xz">>), Kernel("krm", debian)>>) }
Builds == {
  Pair(<<Build(Whole, 1), Do("run", mine)>>, <<Kernel("kpull", debianFull)>>),
  Pair(<<Build(Copies, 1), Do("save", mine)>>, <<Do("rmi", alpine)>>),
  Pair(<<Build(Short, 1)>>, <<Build(Short, 1)>>),
  Pair(<<NoQEMU(Build(Runs, 1)), Build(Runs, 2)>>, <<Kernel("krm", debianKey)>>),
  Pair(<<Build(Twice, 1)>>, <<Build(Words("ARG"), 2), Build(Words("KERNEL"), 3)>>),
  Pair(<<Build(Rest, 1)>>, <<Build(<<Line(<<<<"VOLUME">>, <<"[">>>>)>>, 2),
                             Build(<<Line(<<<<"ARG">>, <<"x">>>>)>>, 3)>>) }

AllPlans == Images \cup Kernels \cup Builds
MCDockerfiles ==
  {cmd.lines : cmd \in UNION {Range(plan[x]) : plan \in Builds, x \in {"p", "q"}}}
MixedOnly == {Pair(<<Do("run", mixed)>>, <<Do("pull", foo)>>)}

(* These plans and registries are such that every name can be read back.   *)
ASSUME MCNamesAreReadable == NamesWellWritten /\ RegistriesAreHosts
=============================================================================
