----------------------------- MODULE MCNetguard -----------------------------
EXTENDS Netguard

MCLowerCase == [l \in {"*", "org", "pypi", "files", "com", "PyPI", "", "[", "v6", "]", ":"} |->
                  IF l = "PyPI" THEN "pypi" ELSE l]

At(host, port) == [host |-> host, port |-> port]
Pypi == <<"pypi", "org">>
Loud == <<"PyPI", "org", "">>
Below1 == <<"files", "pypi", "org">>
Com == <<"com">>
Dots == <<"com", "", "">>
V6 == <<"[", "v6", "]">>

MCConfigs ==
    {[policy |-> {}, flags |-> {At(V6, 80), At(Dots, 80)}],
     [policy |-> {[host |-> <<"*">> \o Pypi, ports |-> {80}]}, flags |-> {At(Pypi, 443)}],
     [policy |-> {[host |-> Com, ports |-> {}]}, flags |-> {}],
     [policy |-> {[host |-> Com, ports |-> {0}]}, flags |-> {}],
     [policy |-> {}, flags |-> {At(Com, NoPort)}],
     [policy |-> {}, flags |-> {}]}

Of(kind, n) == [kind |-> kind, target |-> At(Com, NoPort), flags |-> {}, n |-> n]
Socks(target, flags) == [kind |-> "socks", target |-> target, flags |-> flags, n |-> 1]
Http(target, flags, n) == [kind |-> "http", target |-> target, flags |-> flags, n |-> n]
Data(n) == Of("data", n)
Body(flags, n) == [Of("body", n) EXCEPT !.flags = flags]

MCMaxFaults == [socks |-> 1, http |-> 0]

MCScripts ==
    {[proto |-> "socks", items |-> s] : s \in
       {<<Of("greet", 0), Socks(At(Loud, 443), {}), Data(1), Data(2)>>,
        <<Of("greet", 0), Socks(At(Below1, 443), {})>>,
        <<Of("greet", 0), Socks(At(Com, 22), {"bind"})>>,
        <<Of("garbage", 0)>>,
        <<Of("greet", 0), Of("garbage", 0)>>}}
    \cup
    {[proto |-> "http", items |-> s] : s \in
       {<<Http(At(Pypi, NoPort), {"CONNECT"}, 1), Data(1)>>,
        <<Http(At(Pypi, NoPort), {}, 1), Http(At(Loud, 80), {}, 2)>>,
        <<Http(At(Com, 80), {}, 1), Http(At(Com, 8080), {"close"}, 2)>>,
        <<Http(At(Com, 80), {"expect", "body"}, 1),
          Body({"expect"}, 1), Http(At(Com, 22), {"CONNECT"}, 2), Data(1)>>,
        <<Http(At(Com, 80), {"body"}, 1), Body({}, 1),
          Http(At(Com, 80), {"expect", "body"}, 2), Body({"expect"}, 2)>>,
        <<Http(At(Dots, 80), {}, 1)>>,
        <<Http(At(Com, EmptyPort), {"CONNECT"}, 1)>>,
        <<Http(At(V6, EmptyPort), {}, 1)>>,
        <<Http(At(Pypi, 80), {"upgrade"}, 1), Data(1)>>,
        <<Http(At(Pypi, 80), {"https"}, 1)>>,
        <<Http(At(V6, 80), {}, 1), Http(At(V6, NoPort), {}, 2)>>,
        <<Http(At(Com, 0), {"CONNECT"}, 1)>>}}
=============================================================================
