----------------------------- MODULE MCDocuments -----------------------------
(* Documents for TLC: two sources, of one path when there is an outDir,    *)
(* and one value for each path of the adapter.                             *)
EXTENDS Documents

Value(vendor, kind, native, convert, warns) ==
  [vendor |-> vendor, kind |-> kind, native |-> native, convert |-> convert, warns |-> warns]

Helper == Value(NoVendor, FALSE, "none", "rejects", FALSE)
Tskm == Value("tskm", TRUE, "none", "ok", TRUE)
Legacy == Value(NoVendor, TRUE, "none", "ok", FALSE)
TskmThrows == Value("tskm", TRUE, "none", "throws", FALSE)
TskmBigint == Value("tskm", TRUE, "none", "unwritable", FALSE)
Valibot == Value("valibot", TRUE, "none", "ok", FALSE)
ValibotNoConverter == Value("valibot", TRUE, "none", "rejects", FALSE)
Zod == Value("zod", FALSE, "none", "ok", FALSE)
Arktype == Value("arktype", FALSE, "ok", "rejects", FALSE)
ArktypeThrows == Value("arktype", FALSE, "throws", "rejects", FALSE)
Effect == Value("effect", FALSE, "none", "rejects", FALSE)

MCValues == {Helper, Tskm, Legacy, TskmThrows, TskmBigint, Valibot, ValibotNoConverter,
             Zod, Arktype, ArktypeThrows, Effect}
MCContents ==
  {<<>>} \cup {<<v>> : v \in MCValues}
    \cup {<<v, w>> : v \in {Tskm, Valibot, Zod, Arktype, TskmThrows}, w \in {Tskm, Zod}}
MCConfigFiles ==
  {NoConfig,
   [given |-> TRUE, schemaSources |-> {RuntimeSchemaSource}, outDir |-> NoDir],
   [given |-> TRUE, schemaSources |-> {<<"zod", "/v4">>, <<"effect", "">>}, outDir |-> "docs"]}
MCAllowLists ==
  {VendorAllowList(CommandConfig(file, out).schemaSources) :
     file \in MCConfigFiles, out \in {NoDir, "out"}}
MCModules == {<<>>} \cup {ModuleOf(c, allowed) : c \in MCContents, allowed \in MCAllowLists}

MCSources == <<[dir |-> "a", base |-> "user"], [dir |-> "b", base |-> "user"]>>
MCOutArguments == {NoDir, "out"}
=============================================================================
