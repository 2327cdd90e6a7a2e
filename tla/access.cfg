\* Two requests and one question or browsing user; base k1 and document x1 are still to be created.
SPECIFICATION BrowseSpec
CONSTANTS
  k0 = k0
  k1 = k1
  f1 = f1
  f2 = f2
  f3 = f3
  x0 = x0
  x1 = x1
  d0 = d0
  d1 = d1
  Bases = {k0, k1}
  Folders = {f1, f2, f3}
  Docs = {x0, x1}
  Departments = {d0, d1}
  Owner = d0
  Home <- MCHome
  Present = {k0, f1, f2, x0}
  Path <- MCPath
  Root = root
  Keep = keep
  BaseEdits <- MCBaseEdits
  BaseRights <- MCBaseRights
  DocumentEdits <- MCDocumentEdits
  FolderEdits <- MCFolderEdits
  Imports <- MCImports
  Requests = {r1, r2}
  MaxIndexes <- MCMaxIndexes
SYMMETRY Symmetry
CONSTRAINT Unfinished
INVARIANTS PolicyAgrees DefaultsFit PathsAreAncestors CitedWasReadable FoundIsReadable
CHECK_DEADLOCK FALSE
