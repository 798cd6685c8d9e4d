------------------------------ MODULE CacheKeys ------------------------------
(***************************************************************************)
(* The key builders of internal/cache/cache.go, and the request of each    *)
(* read method that is turned into a key.                                  *)
(*                                                                         *)
(* Keys are colon-separated.  A text is modelled as the sequence of its    *)
(* colon-free pieces ("a:b" is <<"a", "b">>, a text without colon has one  *)
(* piece), so writing texts and numbers one after the other with colons    *)
(* between them is the concatenation of their pieces.                      *)
(***************************************************************************)
EXTENDS Naturals, Sequences

CONSTANT Fnv64a(_)      \* the hash of a query text: one piece, no colon

KitabFilter(Text, Page, Limit) ==
  [op : {"list"}, judul : Text, kategori : Text, page : Page, limit : Limit]

KontenFilter(Id, Page, Limit) ==
  [op : {"konten"}, kitabID : Id, page : Page, limit : Limit]

SearchFilter(Text, Kategori, Page, Limit) ==
  [op : {"search"}, query : Text, kategori : Kategori, page : Page,
   limit : Limit, fuzzy : BOOLEAN, highlight : BOOLEAN]

KeyListKitab(f) ==
  <<"ks", "kitab", "list">> \o f.judul \o f.kategori \o <<f.page, f.limit>>

KeyGetKitab(id) == <<"ks", "kitab", id>>

\* Mutant of KeyKonten: the page size is not part of the key.
KeyKontenAnyLimit(f) == <<"ks", "konten", f.kitabID, f.page>>

KeyKonten(f) == <<"ks", "konten", f.kitabID, f.page, f.limit>>

\* The service passes Query, Kategori, Page and Limit of the filter.
KeySearch(f) ==
  <<"ks", "search", Fnv64a(f.query)>> \o f.kategori \o <<f.page, f.limit>>

KeyKategori == <<"ks", "kategori">>

\* Each read method has its own key builder; all share one Redis and one
\* singleflight.Group.
KeyOfRequest(r) ==
  CASE r.op = "list"     -> KeyListKitab(r)
    [] r.op = "get"      -> KeyGetKitab(r.id)
    [] r.op = "konten"   -> KeyKonten(r)
    [] r.op = "search"   -> KeySearch(r)
    [] r.op = "kategori" -> KeyKategori
===============================================================================
