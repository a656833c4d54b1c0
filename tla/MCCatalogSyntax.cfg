CONSTANTS
    Codes = {1}
    Channels = {sms}
    Upstreams = {vendor}
    Configurations = {{vendor}}
    Priorities = {1}
    Texts = {good, split, broken}
    ParseJoined = {good, split}
    ParseApart = {good}
    Editors = {e1}
    Deliveries = {d1}
    NoRow = NoRow
    NoEdit = NoEdit
    NoDelivery = NoDelivery
    MaxVersion = 2
SPECIFICATION Spec
INVARIANT StoredTemplatesParse
