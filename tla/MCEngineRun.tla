----------------------------- MODULE MCEngineRun -----------------------------
(* Listings for EngineRun: of every kind of file, native ones before and    *)
(* after the others, so that one of them can be left alone (it is the only  *)
(* one, or the others fail to prepare) long after its own gate.             *)
EXTENDS EngineRun

MCRoots ==
  { << >>, <<"skipped", "native">>, <<"nsis", "dotnet">>, <<"dotnet", "nsis">>,
    <<"dotnet", "dotnet", "skipped">>, <<"native", "native", "native">>,
    <<"native", "dotnet">>, <<"native", "dotnet", "native">>, <<"native", "nsis">> }
MCNested == { <<"nsis">>, <<"native">>, <<"dotnet", "skipped">>, <<"native", "nsis">> }
MCDepth == 3
=============================================================================
