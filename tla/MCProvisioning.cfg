SPECIFICATION EitherSpec
INVARIANTS Fetchable  Wired
SYMMETRY Swapped
CONSTANTS
 i1=i1 i2=i2 aba=aba native=native browser=browser plainwasm=plainwasm v1=v1 v2=v2 s1=s1 s2=s2 fileA=fileA fileB=fileB
 p1=p1 p2=p2 core=core raster=raster topo=topo
 Order <- OneExt
 Providers = {native, browser, plainwasm}
 ProvidersOf <- AbaProviders
 KindOf <- Kinds
 Reference = {plainwasm}
 Linked = {browser}
 Artifact <- Files
 ByName <- AbaByName
 Versions = {v1, v2}
 Components = {v1, v2}
 Suites = {s1}
 Records <- AllRecords
 Policies <- SomePolicies
 Publishers = {p1, p2}
 Installers = {i1, i2}
 Absent=Absent Empty=Empty Torn=Torn None=None Missing=Missing
 MaxBuilds = 1
 Subs = {core, raster, topo}
 Configs <- SomeConfigs
 Failures <- AnyFailure
