------------------------------- MODULE Library -------------------------------
(***************************************************************************)
(* Catalogue and media of one tenant, served by the same API workers: a    *)
(* product refers to the assets that are registered when it is written.    *)
(***************************************************************************)
EXTENDS Catalog, Media

libraryVars == <<catalogVars, mediaVars>>

LibraryInit == CatalogInit /\ MediaInit

LibraryNext == \/ CatalogNext(Assets) /\ UNCHANGED mediaVars
               \/ MediaNext /\ UNCHANGED catalogVars
-----------------------------------------------------------------------------
(* A revision number names one content and the numbers have no gap; an     *)
(* asset's object holds its bytes and a derivative leads to its source.    *)
LibraryTruthful ==
    RevisionNamesContent /\ RevisionsContiguous /\ AssetBytesMatch /\ DerivativeTraceable
=============================================================================
