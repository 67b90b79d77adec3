------------------------- MODULE MCRecordMutations -------------------------
(* Small zones of each provider, and the values a client writes. *)
EXTENDS RecordMutations

T(word, quotes) == [word |-> word, quotes |-> quotes]

AliyunRecord(type, ttl, word, status, weighted) ==
  [name |-> "www", type |-> type, ttl |-> ttl, line |-> "default", status |-> status,
   weighted |-> weighted, weight |-> 1, remark |-> "", text |-> T(word, 0), num |-> None]
TencentRecord(type, word, status, remark) ==
  [name |-> "www", type |-> type, ttl |-> 600, line |-> "default", status |-> status,
   weight |-> None, remark |-> remark, system |-> FALSE, text |-> T(word, 0), num |-> None]
CloudflareRecord(type, ttl, text) ==
  [name |-> "www", type |-> type, ttl |-> ttl, proxied |-> FALSE, proxiable |-> type = "A",
   comment |-> "", tags |-> {}, text |-> text, num |-> None]
HuaweiRecord(type, texts, line, enabled) ==
  [name |-> "www", type |-> type, ttl |-> 600,
   values |-> [i \in DOMAIN texts |-> [text |-> texts[i], num |-> None]], line |-> line,
   weight |-> None, enabled |-> enabled, phase |-> "", system |-> FALSE]

\* Sets of two records, beside another set of the same name; of mixed status;
\* weighted; texts in one and in two levels of quotation marks; a proxied record;
\* a provider's own NS record; a set out of service.
MCZones == [
  aliyun |-> {
    <<AliyunRecord("A", 600, "a", "Enable", FALSE), AliyunRecord("A", 600, "b", "Disable", FALSE)>>,
    <<AliyunRecord("A", 600, "a", "Enable", TRUE), AliyunRecord("A", 600, "b", "Enable", TRUE),
      AliyunRecord("A", 300, "d", "Enable", TRUE)>>,
    <<[AliyunRecord("MX", 600, "a", "", FALSE) EXCEPT !.num = 10, !.line = ""],
      [AliyunRecord("CAA", 600, "a", "Enable", FALSE) EXCEPT !.num = 10, !.text = T("a", 1)]>>,
    <<[AliyunRecord("TXT", 600, "a", "Enable", FALSE) EXCEPT !.text = T("a", 2)]>>},
  tencent |-> {
    <<TencentRecord("A", "a", "ENABLE", "note"), TencentRecord("A", "b", "DISABLE", "")>>,
    <<[TencentRecord("A", "a", "ENABLE", "") EXCEPT !.weight = 1],
      [TencentRecord("CAA", "a", "ENABLE", "") EXCEPT !.num = 10, !.text = T("a", 1)]>>,
    <<[TencentRecord("NS", "a", "ENABLE", "") EXCEPT !.system = TRUE]>>},
  cloudflare |-> {
    <<CloudflareRecord("A", 1, T("a", 0)), CloudflareRecord("A", 300, T("b", 0))>>,
    <<[CloudflareRecord("A", 1, T("a", 0)) EXCEPT !.proxied = TRUE, !.tags = {"t"}]>>,
    <<CloudflareRecord("TXT", 300, T("a", 1)), CloudflareRecord("TXT", 300, T("b", 1))>>},
  huawei |-> {
    <<HuaweiRecord("A", <<T("a", 0), T("b", 0)>>, "default_view", TRUE),
      HuaweiRecord("TXT", <<T("a", 1)>>, "", FALSE)>>,
    <<[HuaweiRecord("NS", <<T("a", 0)>>, "", TRUE) EXCEPT !.system = TRUE],
      [HuaweiRecord("A", <<T("a", 0)>>, "", TRUE) EXCEPT !.weight = 1, !.phase = "FREEZE"]>>}]

MCEntryExts == [
  aliyun |-> {None, [line |-> "default", status |-> "", weight |-> 5, remark |-> ""],
              [line |-> "cn", status |-> "", weight |-> None, remark |-> "new"]},
  tencent |-> {None, [line |-> "cn", status |-> "DISABLE", weight |-> 5, remark |-> ""]},
  cloudflare |-> {None},
  huawei |-> {None, [line |-> "", weight |-> 5], [line |-> "cn", weight |-> None]}]

MCSetExts == [
  aliyun |-> {None, [status |-> "Disable"]},
  tencent |-> {None, [status |-> "DISABLE", default |-> None]},
  cloudflare |-> {None, [proxied |-> TRUE, proxiable |-> None, automatic |-> None,
                         comment |-> "note", tags |-> {"t"}]},
  huawei |-> {None, [status |-> "DISABLE", provider |-> "", default |-> None]}]

MCTexts == {T("b", 0), T("c", 2)}
=============================================================================
