--------------------------- MODULE MCProfileLocator ---------------------------
(***************************************************************************)
(* A native instance with a system directory; a Flatpak whose data and     *)
(* custom directory may be links, the latter to a name with a ".." that    *)
(* is harmless or leads out; a snap with two revisions whose current one   *)
(* may be a link to itself or out of the snap, whose common data may be a  *)
(* link to a revision, and whose custom directory may lead out.            *)
(***************************************************************************)
EXTENDS ProfileLocator, TLC

PerKind(native, flatpak, snap) ==
    [k \in {"native", "flatpak", "snap"} |->
        CASE k = "native" -> native [] k = "flatpak" -> flatpak [] OTHER -> snap]

Out == <<"out">>
App == <<"app">>
Current == <<"snap", "current">>
First == <<"snap", "1">>
Second == <<"snap", "2">>
Shared == <<"snap", "common">>

Old(p) == Append(p, "old")
Mine(p) == Append(p, "mine")
Side(p) == Append(p, "side")
Beside(p) == Side(p) \o <<"..", "mine">>

MCNames == STRING \ {".."}
MCKinds == {"native", "flatpak", "snap"}
MCRootOf == PerKind(NoPath, App, Current)
MCCandidatesOf ==
    PerKind(<<<<"old">>, <<"data">>, <<"system">>>>, <<Old(App), Append(App, "data")>>,
            <<Old(Current), <<"snap", "current", "data">>>>)
MCCustoms ==
    PerKind({Mine(Out)}, {Mine(App), Beside(App), Mine(Out)},
            {Mine(Current), Mine(First), Mine(Second), Mine(Shared), Mine(Out)})
MCTargets ==
    PerKind(<<>>,
            App :> {NoPath, <<"moved">>} @@ Mine(App) :> {NoPath, Mine(Out), Side(App) \o <<"..", "old">>}
            @@ Side(App) :> {NoPath, Side(Out)},
            Current :> {First, Current, Out} @@ Shared :> {NoPath, First}
            @@ Mine(First) :> {NoPath, Mine(Out)})

Whatever == {"invalid", "unreadable", "readable"}
Perhaps == {"invalid", "readable"}
Surely == {"readable"}
MCDirectories ==
    PerKind(Mine(Out) :> Whatever @@ <<"old">> :> Whatever @@ <<"data">> :> Perhaps @@ <<"system">> :> Perhaps,
            Mine(App) :> Whatever @@ Mine(<<"moved">>) :> Surely @@ Mine(Out) :> Surely @@ Old(Out) :> Surely @@ Old(App) :> Whatever,
            Mine(First) :> Whatever @@ Mine(Second) :> Surely @@ Mine(Shared) :> Perhaps
            @@ Mine(Out) :> Surely @@ Old(First) :> Whatever)
=============================================================================
